---- MODULE Spec2Model ----
(***************************************************************************)
(* Model of the two EDI decoders of script.js: EDI837Parser (claims) and   *)
(* EDI835Parser (remittance advice).                                       *)
(*                                                                         *)
(* A JavaScript string is a sequence of one-character strings, so that     *)
(* cleaning, trimming and splitting are computed character by character.   *)
(* A JavaScript object is a function from field names to values; an object *)
(* that is reachable through more than one reference (the tree root, a     *)
(* claim, a service, an entity, a payment) lives in the heap and is        *)
(* referred to by its index, every other object is held inline.            *)
(***************************************************************************)
EXTENDS Integers, Sequences, FiniteSets, TLC

VARIABLES
    kind,               \* which decoder class the instance is: "837" or "835"
    vocab,              \* the family of inputs the callers of this instance draw from
    heap,               \* all shared objects ever allocated, by reference
    segments,           \* this.segments
    parsedData,         \* this.parsedData (reference to the root object)
    pc,                 \* "idle" between calls, "loop" inside parseSegments
    ediData,            \* the argument of the call in progress / last call
    i,                  \* loop index of parseSegments
    currentClaim,       \* locals of parseSegments (references, Null when null)
    currentSubscriber,
    currentPatient,
    currentProvider,
    currentPayment,
    calls,              \* completed calls: argument, outcome, tree as returned
    warnings,           \* what the loop of parseSegments passed to console.warn
    app                 \* the page of the decoder in the browser: current page, textarea,
                        \* hidden classes, button, pending timers, and what was rendered

vars == <<kind, vocab, heap, segments, parsedData, pc, ediData, i, currentClaim,
          currentSubscriber, currentPatient, currentProvider, currentPayment, calls,
          warnings, app>>

-----------------------------------------------------------------------------
(* Bounds *)

\* pieces per input when an instance is used for one call
MaxSegs == 3
\* pieces per input when an instance is used for several calls
MaxReSegs == 1
\* parse calls on an instance that is used for several calls
MaxCalls == 2

-----------------------------------------------------------------------------
(* JavaScript values *)

Null == 0

\* the value of elements[k] for k beyond the array: no character is this long
Undefined == <<"undefined">>

EmptyObject == [k \in {} |-> <<>>]

Put(o, k, v) == [f \in (DOMAIN o) \cup {k} |-> IF f = k THEN v ELSE o[f]]

Has(o, k) == k \in DOMAIN o

\* o[k] where a missing property reads as undefined
Get(o, k) == IF k \in DOMAIN o THEN o[k] ELSE Undefined

SetField(h, id, k, v) == [h EXCEPT ![id] = Put(@, k, v)]

\* elements[k], zero-based as in the source
El(elements, k) == IF k + 1 <= Len(elements) THEN elements[k + 1] ELSE Undefined

-----------------------------------------------------------------------------
(* Characters and string primitives *)

CR == "\r"
LF == "\n"

\* characters String.prototype.trim removes (those the inputs can contain)
WhiteSpace == {" ", "\t", CR, LF}

segmentDelimiter == "~"
elementDelimiter == "*"
subElementDelimiter == "^"

RECURSIVE ReplaceCRLF(_)
\* s.replace(/\r\n/g, '\n')
ReplaceCRLF(s) ==
    IF s = <<>> THEN <<>>
    ELSE IF Len(s) >= 2 /\ s[1] = CR /\ s[2] = LF
         THEN <<LF>> \o ReplaceCRLF(SubSeq(s, 3, Len(s)))
         ELSE <<s[1]>> \o ReplaceCRLF(Tail(s))

RECURSIVE ReplaceChar(_, _, _)
\* s.replace(/c/g, r) for a one-character pattern c and a replacement string r
ReplaceChar(s, c, r) ==
    IF s = <<>> THEN <<>>
    ELSE (IF s[1] = c THEN r ELSE <<s[1]>>) \o ReplaceChar(Tail(s), c, r)

RECURSIVE TrimStart(_)
TrimStart(s) ==
    IF s # <<>> /\ s[1] \in WhiteSpace THEN TrimStart(Tail(s)) ELSE s

RECURSIVE TrimEnd(_)
TrimEnd(s) ==
    IF s # <<>> /\ s[Len(s)] \in WhiteSpace THEN TrimEnd(SubSeq(s, 1, Len(s) - 1)) ELSE s

\* s.trim()
Trim(s) == TrimEnd(TrimStart(s))

RECURSIVE SplitFrom(_, _, _)
\* pieces of s on delimiter d, cur being the piece under construction
SplitFrom(s, d, cur) ==
    IF s = <<>> THEN <<cur>>
    ELSE IF s[1] = d THEN <<cur>> \o SplitFrom(Tail(s), d, <<>>)
         ELSE SplitFrom(Tail(s), d, Append(cur, s[1]))

\* s.split(d): "".split(d) is [""], "a~".split("~") is ["a", ""]
Split(s, d) == SplitFrom(s, d, <<>>)

-----------------------------------------------------------------------------
(* Text of the segment tags, entity codes and roles *)

tISA == <<"I","S","A">>
tGS  == <<"G","S">>
tST  == <<"S","T">>
tBHT == <<"B","H","T">>
tNM1 == <<"N","M","1">>
tPRV == <<"P","R","V">>
tDMG == <<"D","M","G">>
tREF == <<"R","E","F">>
tPER == <<"P","E","R">>
tCLM == <<"C","L","M">>
tDTP == <<"D","T","P">>
tSV1 == <<"S","V","1">>
tN3  == <<"N","3">>
tN4  == <<"N","4">>
tSBR == <<"S","B","R">>
tHI  == <<"H","I">>
tLX  == <<"L","X">>
tSE  == <<"S","E">>
tGE  == <<"G","E">>
tIEA == <<"I","E","A">>
tBPR == <<"B","P","R">>
tTRN == <<"T","R","N">>
tDTM == <<"D","T","M">>
tN1  == <<"N","1">>
tCLP == <<"C","L","P">>
tCAS == <<"C","A","S">>
tMIA == <<"M","I","A">>
tMOA == <<"M","O","A">>
tSVC == <<"S","V","C">>
tDTM_SVC == <<"D","T","M","_","S","V","C">>
tAMT == <<"A","M","T">>
tQTY == <<"Q","T","Y">>
tPLB == <<"P","L","B">>
\* tags neither decoder dispatches
tHL  == <<"H","L">>
tPAT == <<"P","A","T">>

c85 == <<"8","5">>
cIL == <<"I","L">>
cQC == <<"Q","C">>
cPR == <<"P","R">>
c82 == <<"8","2">>
c77 == <<"7","7">>
cDN == <<"D","N">>

billing_provider   == <<"b","i","l","l","i","n","g","_","p","r","o","v","i","d","e","r">>
subscriber         == <<"s","u","b","s","c","r","i","b","e","r">>
patient            == <<"p","a","t","i","e","n","t">>
payer              == <<"p","a","y","e","r">>
rendering_provider == <<"r","e","n","d","e","r","i","n","g","_","p","r","o","v","i","d","e","r">>
service_facility   == <<"s","e","r","v","i","c","e","_","f","a","c","i","l","i","t","y">>
referring_provider == <<"r","e","f","e","r","r","i","n","g","_","p","r","o","v","i","d","e","r">>
provider           == <<"p","r","o","v","i","d","e","r">>

\* property names every object literal inherits from Object.prototype
constructorName == <<"c","o","n","s","t","r","u","c","t","o","r">>
toStringName    == <<"t","o","S","t","r","i","n","g">>
ObjectPrototypeKeys == {constructorName, toStringName}

\* the value of an inherited property: a function object, not a string
InheritedValue(code) == <<"function">> \o code

-----------------------------------------------------------------------------
(* EDI837Parser: segment handlers.  h is the heap, pd the reference held   *)
(* in this.parsedData, elements the split segment.                         *)

\* every line break turned into a segment delimiter
EDI837_cleanData_breakSplits(data) ==
    Trim(ReplaceChar(ReplaceChar(ReplaceCRLF(data), CR, <<LF>>), LF, <<segmentDelimiter>>))

EDI837_cleanData(data) ==
    Trim(ReplaceChar(ReplaceChar(ReplaceCRLF(data), CR, <<LF>>), LF, <<>>))

EDI837_parseISA(h, pd, elements) ==
    SetField(h, pd, "interchange",
        [authorizationQualifier |-> El(elements, 1),
         authorizationInfo |-> El(elements, 2),
         securityQualifier |-> El(elements, 3),
         securityInfo |-> El(elements, 4),
         senderQualifier |-> El(elements, 5),
         senderId |-> El(elements, 6),
         receiverQualifier |-> El(elements, 7),
         receiverId |-> El(elements, 8),
         date |-> El(elements, 9),
         time |-> El(elements, 10),
         repetitionSeparator |-> El(elements, 11),
         versionNumber |-> El(elements, 12),
         controlNumber |-> El(elements, 13),
         acknowledgmentRequested |-> El(elements, 14),
         testIndicator |-> El(elements, 15)])

\* the entry put in front of the list (unshift) instead of behind it
EDI837_parseGS_unshift(h, pd, elements) ==
    LET group == [functionalCode |-> El(elements, 1),
                  applicationSender |-> El(elements, 2),
                  applicationReceiver |-> El(elements, 3),
                  date |-> El(elements, 4),
                  time |-> El(elements, 5),
                  controlNumber |-> El(elements, 6),
                  responsibleAgency |-> El(elements, 7),
                  version |-> El(elements, 8)]
    IN SetField(h, pd, "groups", <<group>> \o h[pd].groups)

EDI837_parseGS(h, pd, elements) ==
    LET group == [functionalCode |-> El(elements, 1),
                  applicationSender |-> El(elements, 2),
                  applicationReceiver |-> El(elements, 3),
                  date |-> El(elements, 4),
                  time |-> El(elements, 5),
                  controlNumber |-> El(elements, 6),
                  responsibleAgency |-> El(elements, 7),
                  version |-> El(elements, 8)]
    IN SetField(h, pd, "groups", Append(h[pd].groups, group))

\* the elements present written over the earlier record, the others kept
EDI837_parseST_merged(h, pd, elements) ==
    LET old == IF Has(h[pd], "transactionSet") THEN h[pd].transactionSet
               ELSE [type |-> Undefined, controlNumber |-> Undefined,
                     implementationGuide |-> Undefined]
        Pick(k, f) == IF El(elements, k) = Undefined THEN old[f] ELSE El(elements, k)
    IN SetField(h, pd, "transactionSet",
           [type |-> Pick(1, "type"),
            controlNumber |-> Pick(2, "controlNumber"),
            implementationGuide |-> Pick(3, "implementationGuide")])

EDI837_parseST(h, pd, elements) ==
    SetField(h, pd, "transactionSet",
        [type |-> El(elements, 1),
         controlNumber |-> El(elements, 2),
         implementationGuide |-> El(elements, 3)])

EDI837_parseBHT(h, pd, elements) ==
    SetField(h, pd, "beginningTransaction",
        [hierarchicalStructure |-> El(elements, 1),
         transactionPurpose |-> El(elements, 2),
         referenceId |-> El(elements, 3),
         date |-> El(elements, 4),
         time |-> El(elements, 5),
         transactionType |-> El(elements, 6)])

\* entityTypes[code] || code: a lookup in an object literal also finds the
\* properties inherited from Object.prototype
EDI837_getEntityType(code) ==
    CASE code = c85 -> billing_provider
      [] code = cIL -> subscriber
      [] code = cQC -> patient
      [] code = cPR -> payer
      [] code = c82 -> rendering_provider
      [] code = c77 -> service_facility
      [] code = cDN -> referring_provider
      [] code \in ObjectPrototypeKeys -> InheritedValue(code)
      [] OTHER -> code

EDI837_parseNM1(elements) ==
    LET entityTypeCode == El(elements, 1)
        entityType == EDI837_getEntityType(entityTypeCode)
    IN [type |-> entityType,
        entityTypeCode |-> entityTypeCode,
        entityType |-> El(elements, 2),
        lastName |-> El(elements, 3),
        firstName |-> El(elements, 4),
        middleName |-> El(elements, 5),
        namePrefix |-> El(elements, 6),
        nameSuffix |-> El(elements, 7),
        identificationQualifier |-> El(elements, 8),
        identificationCode |-> El(elements, 9)]

EDI837_parsePRV(h, elements, provider_) ==
    IF provider_ # Null
    THEN SetField(SetField(SetField(h, provider_, "providerCode", El(elements, 1)),
                           provider_, "referenceIdQualifier", El(elements, 2)),
                  provider_, "referenceId", El(elements, 3))
    ELSE h

EDI837_parseDMG(h, elements, entity) ==
    IF entity # Null
    THEN SetField(h, entity, "demographics",
             [dateFormat |-> El(elements, 1),
              birthDate |-> El(elements, 2),
              gender |-> El(elements, 3)])
    ELSE h

EDI837_parseREF(h, pd, elements) ==
    LET reference == [qualifierCode |-> El(elements, 1),
                      referenceId |-> El(elements, 2),
                      description |-> El(elements, 3)]
        h1 == IF ~Has(h[pd], "references") THEN SetField(h, pd, "references", <<>>) ELSE h
    IN SetField(h1, pd, "references", Append(h1[pd].references, reference))

EDI837_parsePER(h, pd, elements) ==
    LET contact == [contactFunctionCode |-> El(elements, 1),
                    name |-> El(elements, 2),
                    communicationNumberQualifier1 |-> El(elements, 3),
                    communicationNumber1 |-> El(elements, 4),
                    communicationNumberQualifier2 |-> El(elements, 5),
                    communicationNumber2 |-> El(elements, 6)]
        h1 == IF ~Has(h[pd], "contacts") THEN SetField(h, pd, "contacts", <<>>) ELSE h
    IN SetField(h1, pd, "contacts", Append(h1[pd].contacts, contact))

\* absent elements defaulted to the empty string (elements[k] || '')
EDI837_parseCLM_defaulted(elements) ==
    LET Or(e) == IF e = Undefined THEN <<>> ELSE e
    IN [claimId |-> Or(El(elements, 1)),
        totalChargeAmount |-> Or(El(elements, 2)),
        placeOfService |-> Or(El(elements, 5)),
        providerSignatureIndicator |-> Or(El(elements, 6)),
        assignmentOfBenefitsIndicator |-> Or(El(elements, 7)),
        releaseOfInformationIndicator |-> Or(El(elements, 8)),
        patientSignatureSourceCode |-> Or(El(elements, 9))]

\* the claim id and the amount trimmed
EDI837_parseCLM_trimmed(elements) ==
    [claimId |-> Trim(El(elements, 1)),
     totalChargeAmount |-> Trim(El(elements, 2)),
     placeOfService |-> El(elements, 5),
     providerSignatureIndicator |-> El(elements, 6),
     assignmentOfBenefitsIndicator |-> El(elements, 7),
     releaseOfInformationIndicator |-> El(elements, 8),
     patientSignatureSourceCode |-> El(elements, 9)]

EDI837_parseCLM(elements) ==
    [claimId |-> El(elements, 1),
     totalChargeAmount |-> El(elements, 2),
     placeOfService |-> El(elements, 5),
     providerSignatureIndicator |-> El(elements, 6),
     assignmentOfBenefitsIndicator |-> El(elements, 7),
     releaseOfInformationIndicator |-> El(elements, 8),
     patientSignatureSourceCode |-> El(elements, 9)]

\* the date pushed on the first claim of the heap instead of the current one
EDI837_parseDTP_firstClaim(h, elements, claim) ==
    LET dateInfo == [qualifier |-> El(elements, 1),
                     formatQualifier |-> El(elements, 2),
                     date |-> El(elements, 3)]
        claims == {c \in 1..Len(h) : Has(h[c], "claimId")}
        first == CHOOSE c \in claims : \A d \in claims : c <= d
    IN IF claim # Null
       THEN LET h1 == IF ~Has(h[first], "dates") THEN SetField(h, first, "dates", <<>>) ELSE h
            IN SetField(h1, first, "dates", Append(h1[first].dates, dateInfo))
       ELSE h

EDI837_parseDTP(h, elements, claim) ==
    LET dateInfo == [qualifier |-> El(elements, 1),
                     formatQualifier |-> El(elements, 2),
                     date |-> El(elements, 3)]
    IN IF claim # Null
       THEN LET h1 == IF ~Has(h[claim], "dates") THEN SetField(h, claim, "dates", <<>>) ELSE h
            IN SetField(h1, claim, "dates", Append(h1[claim].dates, dateInfo))
       ELSE h

EDI837_parseSV1(elements) ==
    [serviceCode |-> El(elements, 1),
     chargeAmount |-> El(elements, 2),
     unitOfMeasure |-> El(elements, 3),
     serviceUnits |-> El(elements, 4),
     placeOfService |-> El(elements, 5),
     diagnosisPointer |-> El(elements, 7)]

EDI837_parseN3(h, pd, elements) ==
    LET h1 == IF ~Has(h[pd], "addresses") THEN SetField(h, pd, "addresses", <<>>) ELSE h
    IN SetField(h1, pd, "addresses",
           Append(h1[pd].addresses, [addressLine1 |-> El(elements, 1),
                                     addressLine2 |-> El(elements, 2)]))

\* the city written on the first address instead of the last
EDI837_parseN4_first(h, pd, elements) ==
    IF Has(h[pd], "addresses") /\ Len(h[pd].addresses) > 0
    THEN LET updated == Put(Put(Put(Put(h[pd].addresses[1], "city", El(elements, 1)),
                                    "state", El(elements, 2)),
                                "postalCode", El(elements, 3)),
                            "countryCode", El(elements, 4))
         IN SetField(h, pd, "addresses", [h[pd].addresses EXCEPT ![1] = updated])
    ELSE h

\* this.parsedData.addresses?.[length - 1]: undefined when the list is
\* missing or empty
EDI837_parseN4(h, pd, elements) ==
    IF Has(h[pd], "addresses") /\ Len(h[pd].addresses) > 0
    THEN LET n == Len(h[pd].addresses)
             lastAddress == h[pd].addresses[n]
             updated == Put(Put(Put(Put(lastAddress, "city", El(elements, 1)),
                                    "state", El(elements, 2)),
                                "postalCode", El(elements, 3)),
                            "countryCode", El(elements, 4))
         IN SetField(h, pd, "addresses", [h[pd].addresses EXCEPT ![n] = updated])
    ELSE h

EDI837_parseSBR(h, pd, elements) ==
    SetField(h, pd, "subscriberInfo",
        [payerResponsibilitySequence |-> El(elements, 1),
         individualRelationshipCode |-> El(elements, 2),
         groupOrPolicyNumber |-> El(elements, 3),
         groupName |-> El(elements, 4),
         insuranceTypeCode |-> El(elements, 5),
         coordinationOfBenefitsCode |-> El(elements, 9)])

\* elements[1]?.split(':')[k]
SplitColon(e, k) == IF e = Undefined THEN Undefined ELSE El(Split(e, ":"), k)

\* one entry for the first composite and one for the second
EDI837_parseHI_each(h, elements, claim) ==
    LET Entry(k) == [codeQualifier |-> SplitColon(El(elements, k), 0),
                     code |-> SplitColon(El(elements, k), 1),
                     dateQualifier |-> Undefined,
                     date |-> Undefined]
        entries == IF El(elements, 2) = Undefined THEN <<Entry(1)>> ELSE <<Entry(1), Entry(2)>>
    IN IF claim # Null
       THEN LET h1 == IF ~Has(h[claim], "healthInfo")
                      THEN SetField(h, claim, "healthInfo", <<>>) ELSE h
            IN SetField(h1, claim, "healthInfo", h1[claim].healthInfo \o entries)
       ELSE h

EDI837_parseHI(h, elements, claim) ==
    LET healthInfo == [codeQualifier |-> SplitColon(El(elements, 1), 0),
                       code |-> SplitColon(El(elements, 1), 1),
                       dateQualifier |-> El(elements, 2),
                       date |-> El(elements, 3)]
    IN IF claim # Null
       THEN LET h1 == IF ~Has(h[claim], "healthInfo")
                      THEN SetField(h, claim, "healthInfo", <<>>) ELSE h
            IN SetField(h1, claim, "healthInfo", Append(h1[claim].healthInfo, healthInfo))
       ELSE h

EDI837_parseLX(h, pd, elements) ==
    SetField(h, pd, "serviceLineNumber", El(elements, 1))

EDI837_parseSE(h, pd, elements) ==
    SetField(h, pd, "transactionSetTrailer",
        [segmentCount |-> El(elements, 1), controlNumber |-> El(elements, 2)])

EDI837_parseGE(h, pd, elements) ==
    SetField(h, pd, "functionalGroupTrailer",
        [transactionSetCount |-> El(elements, 1), controlNumber |-> El(elements, 2)])

EDI837_parseIEA(h, pd, elements) ==
    SetField(h, pd, "interchangeTrailer",
        [groupCount |-> El(elements, 1), controlNumber |-> El(elements, 2)])

\* const service = this.parseSV1(elements); this.parsedData.services.push(service)
EDI837_recordService(h, pd, elements) ==
    LET h1 == Append(h, EDI837_parseSV1(elements))
    IN SetField(h1, pd, "services", Append(h1[pd].services, Len(h1)))

\* the nested push left out
EDI837_attachService_dropped(h, claim, service) == h

\* if (currentClaim) { if (!currentClaim.services) ...; currentClaim.services.push(service) }
EDI837_attachService(h, claim, service) ==
    IF claim # Null
    THEN LET h1 == IF ~Has(h[claim], "services") THEN SetField(h, claim, "services", <<>>)
                   ELSE h
         IN SetField(h1, claim, "services", Append(h1[claim].services, service))
    ELSE h

\* the patient taken before the subscriber (currentPatient || currentSubscriber)
EDI837_subscriberOrPatient_patientFirst(cur) ==
    IF cur.patient # Null THEN cur.patient ELSE cur.subscriber

\* the more recently created of the two entities
EDI837_subscriberOrPatient_latest(cur) ==
    IF cur.patient > cur.subscriber THEN cur.patient ELSE cur.subscriber

\* currentSubscriber || currentPatient
EDI837_subscriberOrPatient(cur) ==
    IF cur.subscriber # Null THEN cur.subscriber ELSE cur.patient

\* an unmatched tag ends the claim in progress
EDI837_unmatched_endsClaim(h, cur) == [heap |-> h, cur |-> [cur EXCEPT !.claim = Null]]

\* the switch has no default case: no case label matches, nothing runs
EDI837_unmatched(h, cur) == [heap |-> h, cur |-> cur]

\* one iteration of the loop of parseSegments: the switch on elements[0].
\* cur holds the locals currentClaim, currentSubscriber, currentPatient and
\* currentProvider; the result is the heap and the locals after the iteration.
EDI837_dispatch(h, pd, cur, segment) ==
    LET elements == Split(segment, elementDelimiter)
        segmentId == elements[1]
        new == Len(h) + 1
    IN CASE segmentId = tISA -> [heap |-> EDI837_parseISA(h, pd, elements), cur |-> cur]
         [] segmentId = tGS  -> [heap |-> EDI837_parseGS(h, pd, elements), cur |-> cur]
         [] segmentId = tST  -> [heap |-> EDI837_parseST(h, pd, elements), cur |-> cur]
         [] segmentId = tBHT -> [heap |-> EDI837_parseBHT(h, pd, elements), cur |-> cur]
         [] segmentId = tNM1 ->
                LET entityType == EDI837_parseNM1(elements)
                    h1 == Append(h, entityType)
                IN IF entityType.type = subscriber
                   THEN [heap |-> SetField(h1, pd, "subscribers", Append(h1[pd].subscribers, new)),
                         cur |-> [cur EXCEPT !.subscriber = new]]
                   ELSE IF entityType.type = patient
                   THEN [heap |-> SetField(h1, pd, "patients", Append(h1[pd].patients, new)),
                         cur |-> [cur EXCEPT !.patient = new]]
                   ELSE IF entityType.type = provider
                   THEN [heap |-> SetField(h1, pd, "providers", Append(h1[pd].providers, new)),
                         cur |-> [cur EXCEPT !.provider = new]]
                   ELSE [heap |-> h, cur |-> cur]
         [] segmentId = tPRV -> [heap |-> EDI837_parsePRV(h, elements, cur.provider), cur |-> cur]
         [] segmentId = tDMG ->
                [heap |-> EDI837_parseDMG(h, elements, EDI837_subscriberOrPatient(cur)),
                 cur |-> cur]
         [] segmentId = tREF -> [heap |-> EDI837_parseREF(h, pd, elements), cur |-> cur]
         [] segmentId = tPER -> [heap |-> EDI837_parsePER(h, pd, elements), cur |-> cur]
         [] segmentId = tCLM ->
                LET h1 == Append(h, EDI837_parseCLM(elements))
                IN [heap |-> SetField(h1, pd, "claims", Append(h1[pd].claims, new)),
                    cur |-> [cur EXCEPT !.claim = new]]
         [] segmentId = tDTP -> [heap |-> EDI837_parseDTP(h, elements, cur.claim), cur |-> cur]
         [] segmentId = tSV1 ->
                [heap |-> EDI837_attachService(EDI837_recordService(h, pd, elements),
                                               cur.claim, new),
                 cur |-> cur]
         [] segmentId = tN3  -> [heap |-> EDI837_parseN3(h, pd, elements), cur |-> cur]
         [] segmentId = tN4  -> [heap |-> EDI837_parseN4(h, pd, elements), cur |-> cur]
         [] segmentId = tSBR -> [heap |-> EDI837_parseSBR(h, pd, elements), cur |-> cur]
         [] segmentId = tHI  -> [heap |-> EDI837_parseHI(h, elements, cur.claim), cur |-> cur]
         [] segmentId = tLX  -> [heap |-> EDI837_parseLX(h, pd, elements), cur |-> cur]
         [] segmentId = tSE  -> [heap |-> EDI837_parseSE(h, pd, elements), cur |-> cur]
         [] segmentId = tGE  -> [heap |-> EDI837_parseGE(h, pd, elements), cur |-> cur]
         [] segmentId = tIEA -> [heap |-> EDI837_parseIEA(h, pd, elements), cur |-> cur]
         [] OTHER -> EDI837_unmatched(h, cur)

-----------------------------------------------------------------------------
(* EDI835Parser: segment handlers *)

EDI835_cleanData(data) ==
    Trim(ReplaceChar(ReplaceChar(ReplaceCRLF(data), CR, <<LF>>), LF, <<>>))

EDI835_parseISA(h, pd, elements) ==
    SetField(h, pd, "interchange",
        [authorizationQualifier |-> El(elements, 1),
         authorizationInfo |-> El(elements, 2),
         securityQualifier |-> El(elements, 3),
         securityInfo |-> El(elements, 4),
         senderQualifier |-> El(elements, 5),
         senderId |-> El(elements, 6),
         receiverQualifier |-> El(elements, 7),
         receiverId |-> El(elements, 8),
         date |-> El(elements, 9),
         time |-> El(elements, 10),
         repetitionSeparator |-> El(elements, 11),
         versionNumber |-> El(elements, 12),
         controlNumber |-> El(elements, 13),
         acknowledgmentRequested |-> El(elements, 14),
         testIndicator |-> El(elements, 15)])

EDI835_parseGS(h, pd, elements) ==
    LET group == [functionalCode |-> El(elements, 1),
                  applicationSender |-> El(elements, 2),
                  applicationReceiver |-> El(elements, 3),
                  date |-> El(elements, 4),
                  time |-> El(elements, 5),
                  controlNumber |-> El(elements, 6),
                  responsibleAgency |-> El(elements, 7),
                  version |-> El(elements, 8)]
    IN SetField(h, pd, "groups", Append(h[pd].groups, group))

EDI835_parseST(h, pd, elements) ==
    SetField(h, pd, "transactionSet",
        [type |-> El(elements, 1),
         controlNumber |-> El(elements, 2),
         implementationGuide |-> El(elements, 3)])

EDI835_parseBPR(elements) ==
    [transactionHandlingCode |-> El(elements, 1),
     totalPremiumPaymentAmount |-> El(elements, 2),
     creditDebitFlag |-> El(elements, 3),
     paymentMethodCode |-> El(elements, 4),
     paymentFormatCode |-> El(elements, 5),
     senderDFIIdQualifier |-> El(elements, 6),
     senderDFIId |-> El(elements, 7),
     senderAccountQualifier |-> El(elements, 8),
     senderAccountNumber |-> El(elements, 9),
     originatingCompanyId |-> El(elements, 10),
     originatingCompanySupplementalCode |-> El(elements, 11),
     receiverDFIIdQualifier |-> El(elements, 12),
     receiverDFIId |-> El(elements, 13),
     receiverAccountQualifier |-> El(elements, 14),
     receiverAccountNumber |-> El(elements, 15),
     effectiveEntryDate |-> El(elements, 16)]

\* a trace number already set is kept
EDI835_parseTRN_keepFirst(h, elements, payment) ==
    LET traceNumber == [traceTypeCode |-> El(elements, 1),
                        traceNumber |-> El(elements, 2),
                        originatingCompanyId |-> El(elements, 3),
                        referenceId |-> El(elements, 4)]
    IN IF payment # Null /\ ~Has(h[payment], "traceNumber")
       THEN SetField(h, payment, "traceNumber", traceNumber) ELSE h

EDI835_parseTRN(h, elements, payment) ==
    LET traceNumber == [traceTypeCode |-> El(elements, 1),
                        traceNumber |-> El(elements, 2),
                        originatingCompanyId |-> El(elements, 3),
                        referenceId |-> El(elements, 4)]
    IN IF payment # Null THEN SetField(h, payment, "traceNumber", traceNumber) ELSE h

EDI835_parseREF(h, pd, elements) ==
    LET reference == [qualifierCode |-> El(elements, 1),
                      referenceId |-> El(elements, 2),
                      description |-> El(elements, 3)]
    IN SetField(h, pd, "references", Append(h[pd].references, reference))

\* the list replaced by the new date instead of extended
EDI835_parseDTM_single(h, elements, payment) ==
    LET dateInfo == [qualifier |-> El(elements, 1),
                     date |-> El(elements, 2),
                     time |-> El(elements, 3),
                     timeCode |-> El(elements, 4)]
    IN IF payment # Null THEN SetField(h, payment, "dates", <<dateInfo>>) ELSE h

EDI835_parseDTM(h, elements, payment) ==
    LET dateInfo == [qualifier |-> El(elements, 1),
                     date |-> El(elements, 2),
                     time |-> El(elements, 3),
                     timeCode |-> El(elements, 4)]
    IN IF payment # Null
       THEN LET h1 == IF ~Has(h[payment], "dates") THEN SetField(h, payment, "dates", <<>>) ELSE h
            IN SetField(h1, payment, "dates", Append(h1[payment].dates, dateInfo))
       ELSE h

EDI835_parseN1(elements) ==
    [entityIdentifierCode |-> El(elements, 1),
     name |-> El(elements, 2),
     identificationCodeQualifier |-> El(elements, 3),
     identificationCode |-> El(elements, 4)]

EDI835_parseN3(h, pd, elements) ==
    SetField(h, pd, "addresses",
        Append(h[pd].addresses, [addressLine1 |-> El(elements, 1),
                                 addressLine2 |-> El(elements, 2)]))

EDI835_parseN4(h, pd, elements) ==
    IF Has(h[pd], "addresses") /\ Len(h[pd].addresses) > 0
    THEN LET n == Len(h[pd].addresses)
             lastAddress == h[pd].addresses[n]
             updated == Put(Put(Put(Put(lastAddress, "city", El(elements, 1)),
                                    "state", El(elements, 2)),
                                "postalCode", El(elements, 3)),
                            "countryCode", El(elements, 4))
         IN SetField(h, pd, "addresses", [h[pd].addresses EXCEPT ![n] = updated])
    ELSE h

EDI835_parsePER(h, pd, elements) ==
    LET contact == [contactFunctionCode |-> El(elements, 1),
                    name |-> El(elements, 2),
                    communicationNumberQualifier1 |-> El(elements, 3),
                    communicationNumber1 |-> El(elements, 4),
                    communicationNumberQualifier2 |-> El(elements, 5),
                    communicationNumber2 |-> El(elements, 6)]
    IN SetField(h, pd, "contacts", Append(h[pd].contacts, contact))

EDI835_parseCLP(elements) ==
    [claimSubmitterIdentifier |-> El(elements, 1),
     claimStatusCode |-> El(elements, 2),
     totalClaimChargeAmount |-> El(elements, 3),
     claimPaymentAmount |-> El(elements, 4),
     patientResponsibilityAmount |-> El(elements, 5),
     claimFilingIndicatorCode |-> El(elements, 6),
     payerClaimControlNumber |-> El(elements, 7),
     facilityTypeCode |-> El(elements, 8),
     claimFrequencyCode |-> El(elements, 9)]

\* without a claim the entry goes to the object created last
PushOnClaim_orphanKept(h, claim, list, entry) ==
    LET target == IF claim # Null THEN claim ELSE Len(h)
        h1 == IF ~Has(h[target], list) THEN SetField(h, target, list, <<>>) ELSE h
    IN SetField(h1, target, list, Append(h1[target][list], entry))

\* if (claim) { if (!claim[list]) claim[list] = []; claim[list].push(entry) }
PushOnClaim(h, claim, list, entry) ==
    IF claim # Null
    THEN LET h1 == IF ~Has(h[claim], list) THEN SetField(h, claim, list, <<>>) ELSE h
         IN SetField(h1, claim, list, Append(h1[claim][list], entry))
    ELSE h

\* the adjustment put on the latest service of the claim when it has one
EDI835_parseCAS_onService(h, elements, claim) ==
    LET adjustment == [claimAdjustmentGroupCode |-> El(elements, 1),
                       adjustmentReasonCode1 |-> El(elements, 2),
                       adjustmentAmount1 |-> El(elements, 3),
                       adjustmentQuantity1 |-> El(elements, 4),
                       adjustmentReasonCode2 |-> El(elements, 5),
                       adjustmentAmount2 |-> El(elements, 6),
                       adjustmentQuantity2 |-> El(elements, 7)]
    IN IF claim # Null /\ Has(h[claim], "services")
       THEN PushOnClaim(h, h[claim].services[Len(h[claim].services)], "adjustments", adjustment)
       ELSE PushOnClaim(h, claim, "adjustments", adjustment)

EDI835_parseCAS(h, elements, claim) ==
    LET adjustment == [claimAdjustmentGroupCode |-> El(elements, 1),
                       adjustmentReasonCode1 |-> El(elements, 2),
                       adjustmentAmount1 |-> El(elements, 3),
                       adjustmentQuantity1 |-> El(elements, 4),
                       adjustmentReasonCode2 |-> El(elements, 5),
                       adjustmentAmount2 |-> El(elements, 6),
                       adjustmentQuantity2 |-> El(elements, 7)]
    IN PushOnClaim(h, claim, "adjustments", adjustment)

EDI835_parseNM1(h, elements, claim) ==
    LET entity == [entityIdentifierCode |-> El(elements, 1),
                   entityTypeQualifier |-> El(elements, 2),
                   lastName |-> El(elements, 3),
                   firstName |-> El(elements, 4),
                   middleName |-> El(elements, 5),
                   namePrefix |-> El(elements, 6),
                   nameSuffix |-> El(elements, 7),
                   identificationCodeQualifier |-> El(elements, 8),
                   identificationCode |-> El(elements, 9)]
    IN PushOnClaim(h, claim, "entities", entity)

EDI835_parseMIA(h, elements, claim) ==
    IF claim # Null
    THEN SetField(h, claim, "inpatientAdjudication",
             [coveredDays |-> El(elements, 1),
              ppsOperatingOutlierAmount |-> El(elements, 2),
              lifetimeReserveDays |-> El(elements, 3),
              coinsuranceDays |-> El(elements, 4),
              nonCoveredDays |-> El(elements, 5),
              totalDeductibleAmount |-> El(elements, 6),
              totalCoinsuranceAmount |-> El(elements, 7),
              accommodationTotalAmount |-> El(elements, 8),
              otherMedicalServiceTotalAmount |-> El(elements, 9)])
    ELSE h

EDI835_parseMOA(h, elements, claim) ==
    IF claim # Null
    THEN SetField(h, claim, "outpatientAdjudication",
             [reimbursementRate |-> El(elements, 1),
              hcpcsPayableAmount |-> El(elements, 2),
              remarkCode1 |-> El(elements, 3),
              remarkCode2 |-> El(elements, 4),
              remarkCode3 |-> El(elements, 5),
              remarkCode4 |-> El(elements, 6),
              remarkCode5 |-> El(elements, 7),
              endStageRenalDiseasePaymentAmount |-> El(elements, 8),
              nonPayableProfessionalComponentBilledAmount |-> El(elements, 9)])
    ELSE h

EDI835_parseSVC(elements) ==
    [serviceCode |-> El(elements, 1),
     chargeAmount |-> El(elements, 2),
     paymentAmount |-> El(elements, 3),
     revenueCode |-> El(elements, 4),
     paidUnits |-> El(elements, 5),
     bundledUnits |-> El(elements, 6)]

\* the record is returned to a caller that discards it
EDI835_parseDTMService(elements) ==
    [qualifier |-> El(elements, 1), date |-> El(elements, 2)]

EDI835_parseAMT(h, elements, claim) ==
    LET amount == [amountQualifierCode |-> El(elements, 1),
                   monetaryAmount |-> El(elements, 2)]
    IN PushOnClaim(h, claim, "amounts", amount)

EDI835_parseQTY(h, elements, claim) ==
    LET quantity == [quantityQualifier |-> El(elements, 1),
                     quantity |-> El(elements, 2)]
    IN PushOnClaim(h, claim, "quantities", quantity)

EDI835_parsePLB(elements) ==
    [providerIdentifier |-> El(elements, 1),
     fiscalPeriodDate |-> El(elements, 2),
     adjustmentIdentifier1 |-> El(elements, 3),
     providerAdjustmentAmount1 |-> El(elements, 4),
     adjustmentIdentifier2 |-> El(elements, 5),
     providerAdjustmentAmount2 |-> El(elements, 6)]

EDI835_parseSE(h, pd, elements) ==
    SetField(h, pd, "transactionSetTrailer",
        [segmentCount |-> El(elements, 1), controlNumber |-> El(elements, 2)])

EDI835_parseGE(h, pd, elements) ==
    SetField(h, pd, "functionalGroupTrailer",
        [transactionSetCount |-> El(elements, 1), controlNumber |-> El(elements, 2)])

EDI835_parseIEA(h, pd, elements) ==
    SetField(h, pd, "interchangeTrailer",
        [groupCount |-> El(elements, 1), controlNumber |-> El(elements, 2)])

\* the service recorded in the flat list only while no claim has been seen
EDI835_recordService_nestedOnly(h, pd, elements) ==
    LET h1 == Append(h, EDI835_parseSVC(elements))
    IN IF h1[pd].claims = <<>>
       THEN SetField(h1, pd, "services", Append(h1[pd].services, Len(h1)))
       ELSE h1

\* const service = this.parseSVC(elements); this.parsedData.services.push(service)
EDI835_recordService(h, pd, elements) ==
    LET h1 == Append(h, EDI835_parseSVC(elements))
    IN SetField(h1, pd, "services", Append(h1[pd].services, Len(h1)))

\* if (currentClaim) { if (!currentClaim.services) ...; currentClaim.services.push(service) }
EDI835_attachService(h, claim, service) ==
    IF claim # Null
    THEN LET h1 == IF ~Has(h[claim], "services") THEN SetField(h, claim, "services", <<>>)
                   ELSE h
         IN SetField(h1, claim, "services", Append(h1[claim].services, service))
    ELSE h

\* the adjustment put on the current claim when there is one
EDI835_pushAdjustment_onClaim(h, pd, claim, adjustment) ==
    IF claim # Null
    THEN LET h1 == IF ~Has(h[claim], "adjustments")
                   THEN SetField(h, claim, "adjustments", <<>>) ELSE h
         IN SetField(h1, claim, "adjustments", Append(h1[claim].adjustments, adjustment))
    ELSE SetField(h, pd, "adjustments", Append(h[pd].adjustments, adjustment))

\* const adjustment = this.parsePLB(elements); this.parsedData.adjustments.push(adjustment)
EDI835_pushAdjustment(h, pd, claim, adjustment) ==
    SetField(h, pd, "adjustments", Append(h[pd].adjustments, adjustment))

\* the claim put in front of the payment's list (unshift)
EDI835_attachClaim_unshift(h, payment, claim) ==
    IF payment # Null
    THEN LET h1 == IF ~Has(h[payment], "claims") THEN SetField(h, payment, "claims", <<>>)
                   ELSE h
         IN SetField(h1, payment, "claims", <<claim>> \o h1[payment].claims)
    ELSE h

\* a copy of the claim, as it is at the CLP, put on the payment's list
EDI835_attachClaim_copy(h, payment, claim) ==
    IF payment # Null
    THEN LET h1 == IF ~Has(h[payment], "claims") THEN SetField(h, payment, "claims", <<>>)
                   ELSE h
             h2 == Append(h1, h1[claim])
         IN SetField(h2, payment, "claims", Append(h2[payment].claims, Len(h2)))
    ELSE h

\* if (currentPayment) { if (!currentPayment.claims) ...; currentPayment.claims.push(currentClaim) }
EDI835_attachClaim(h, payment, claim) ==
    IF payment # Null
    THEN LET h1 == IF ~Has(h[payment], "claims") THEN SetField(h, payment, "claims", <<>>)
                   ELSE h
         IN SetField(h1, payment, "claims", Append(h1[payment].claims, claim))
    ELSE h

\* the entity of the N1 also kept in the tree, on the contacts list
EDI835_holdProvider_listed(h, pd, elements) ==
    LET h1 == Append(h, EDI835_parseN1(elements))
    IN SetField(h1, pd, "contacts", Append(h1[pd].contacts, EDI835_parseN1(elements)))

\* currentProvider = this.parseN1(elements): the new object is referenced by
\* the local alone
EDI835_holdProvider(h, pd, elements) == Append(h, EDI835_parseN1(elements))

\* an unmatched tag ends the payment in progress
EDI835_unmatched_endsPayment(h, cur) == [heap |-> h, cur |-> [cur EXCEPT !.payment = Null]]

\* the switch has no default case: no case label matches, nothing runs
EDI835_unmatched(h, cur) == [heap |-> h, cur |-> cur]

\* one iteration of the loop of parseSegments; cur holds the locals
\* currentPayment, currentClaim and currentProvider.
EDI835_dispatch(h, pd, cur, segment) ==
    LET elements == Split(segment, elementDelimiter)
        segmentId == elements[1]
        new == Len(h) + 1
    IN CASE segmentId = tISA -> [heap |-> EDI835_parseISA(h, pd, elements), cur |-> cur]
         [] segmentId = tGS  -> [heap |-> EDI835_parseGS(h, pd, elements), cur |-> cur]
         [] segmentId = tST  -> [heap |-> EDI835_parseST(h, pd, elements), cur |-> cur]
         [] segmentId = tBPR ->
                LET h1 == Append(h, EDI835_parseBPR(elements))
                IN [heap |-> SetField(h1, pd, "payments", Append(h1[pd].payments, new)),
                    cur |-> [cur EXCEPT !.payment = new]]
         [] segmentId = tTRN -> [heap |-> EDI835_parseTRN(h, elements, cur.payment), cur |-> cur]
         [] segmentId = tREF -> [heap |-> EDI835_parseREF(h, pd, elements), cur |-> cur]
         [] segmentId = tDTM -> [heap |-> EDI835_parseDTM(h, elements, cur.payment), cur |-> cur]
         [] segmentId = tN1  ->
                [heap |-> EDI835_holdProvider(h, pd, elements),
                 cur |-> [cur EXCEPT !.provider = new]]
         [] segmentId = tN3  -> [heap |-> EDI835_parseN3(h, pd, elements), cur |-> cur]
         [] segmentId = tN4  -> [heap |-> EDI835_parseN4(h, pd, elements), cur |-> cur]
         [] segmentId = tPER -> [heap |-> EDI835_parsePER(h, pd, elements), cur |-> cur]
         [] segmentId = tCLP ->
                LET h1 == Append(h, EDI835_parseCLP(elements))
                    h2 == SetField(h1, pd, "claims", Append(h1[pd].claims, new))
                IN [heap |-> EDI835_attachClaim(h2, cur.payment, new),
                    cur |-> [cur EXCEPT !.claim = new]]
         [] segmentId = tCAS -> [heap |-> EDI835_parseCAS(h, elements, cur.claim), cur |-> cur]
         [] segmentId = tNM1 -> [heap |-> EDI835_parseNM1(h, elements, cur.claim), cur |-> cur]
         [] segmentId = tMIA -> [heap |-> EDI835_parseMIA(h, elements, cur.claim), cur |-> cur]
         [] segmentId = tMOA -> [heap |-> EDI835_parseMOA(h, elements, cur.claim), cur |-> cur]
         [] segmentId = tSVC ->
                [heap |-> EDI835_attachService(EDI835_recordService(h, pd, elements),
                                               cur.claim, new),
                 cur |-> cur]
         [] segmentId = tDTM_SVC -> [heap |-> h, cur |-> cur]
         [] segmentId = tAMT -> [heap |-> EDI835_parseAMT(h, elements, cur.claim), cur |-> cur]
         [] segmentId = tQTY -> [heap |-> EDI835_parseQTY(h, elements, cur.claim), cur |-> cur]
         [] segmentId = tPLB ->
                [heap |-> EDI835_pushAdjustment(h, pd, cur.claim, EDI835_parsePLB(elements)),
                 cur |-> cur]
         [] segmentId = tSE  -> [heap |-> EDI835_parseSE(h, pd, elements), cur |-> cur]
         [] segmentId = tGE  -> [heap |-> EDI835_parseGE(h, pd, elements), cur |-> cur]
         [] segmentId = tIEA -> [heap |-> EDI835_parseIEA(h, pd, elements), cur |-> cur]
         [] OTHER -> EDI835_unmatched(h, cur)

-----------------------------------------------------------------------------
(* parse: the part of the method before and after the loop *)

\* the error of the try block thrown on as it is
ParsingFailed_rethrown(message) == message

\* `Parsing failed: ${error.message}`; a message is a sequence of text chunks
ParsingFailed(message) == <<"Parsing failed: ">> \o message

NoValidSegments == <<"No valid EDI segments found">>

\* message of the TypeError that data.replace(...) raises for a non-string
TypeErrorMessage(data) ==
    IF data.t \in {"null", "undefined"}
    THEN <<"Cannot read properties of ", data.t, " (reading 'replace')">>
    ELSE <<"data.replace is not a function">>

RECURSIVE TrimNonEmpty(_)
\* the pieces filtered without being trimmed
TrimNonEmpty_untrimmed(pieces) ==
    IF pieces = <<>> THEN <<>>
    ELSE (IF Len(pieces[1]) > 0 THEN <<pieces[1]>> ELSE <<>>)
         \o TrimNonEmpty(Tail(pieces))

\* the pieces filtered before they are trimmed
TrimNonEmpty_filterFirst(pieces) ==
    IF pieces = <<>> THEN <<>>
    ELSE (IF Len(pieces[1]) > 0 THEN <<Trim(pieces[1])>> ELSE <<>>)
         \o TrimNonEmpty(Tail(pieces))

\* .map(segment => segment.trim()).filter(segment => segment.length > 0)
TrimNonEmpty(pieces) ==
    IF pieces = <<>> THEN <<>>
    ELSE (IF Len(Trim(pieces[1])) > 0 THEN <<Trim(pieces[1])>> ELSE <<>>)
         \o TrimNonEmpty(Tail(pieces))

\* the tree created with the three lists the handlers otherwise create
EDI837_newParsedData_eager ==
    [interchange |-> EmptyObject, groups |-> <<>>, claims |-> <<>>, providers |-> <<>>,
     subscribers |-> <<>>, patients |-> <<>>, services |-> <<>>, references |-> <<>>,
     contacts |-> <<>>, addresses |-> <<>>]

EDI837_newParsedData ==
    [interchange |-> EmptyObject, groups |-> <<>>, claims |-> <<>>, providers |-> <<>>,
     subscribers |-> <<>>, patients |-> <<>>, services |-> <<>>]

EDI835_newParsedData ==
    [interchange |-> EmptyObject, groups |-> <<>>, payments |-> <<>>, claims |-> <<>>,
     services |-> <<>>, adjustments |-> <<>>, references |-> <<>>, contacts |-> <<>>,
     addresses |-> <<>>]

\* the tree of the previous call kept and filled further when there is one
EDI837_parseEnter_keepTree(this, h, data) ==
    IF data.t # "string"
    THEN [segments |-> this.segments, parsedData |-> this.parsedData, heap |-> h,
          error |-> ParsingFailed(TypeErrorMessage(data))]
    ELSE LET cleanData == EDI837_cleanData(data.v)
             segs == TrimNonEmpty(Split(cleanData, segmentDelimiter))
         IN IF Len(segs) = 0
            THEN [segments |-> segs, parsedData |-> this.parsedData, heap |-> h,
                  error |-> ParsingFailed(NoValidSegments)]
            ELSE IF Has(h[this.parsedData], "claims")
            THEN [segments |-> segs, parsedData |-> this.parsedData, heap |-> h,
                  error |-> <<>>]
            ELSE [segments |-> segs, parsedData |-> Len(h) + 1,
                  heap |-> Append(h, EDI837_newParsedData), error |-> <<>>]

\* the object held in this.parsedData emptied and filled again
EDI837_parseEnter_reuse(this, h, data) ==
    IF data.t # "string"
    THEN [segments |-> this.segments, parsedData |-> this.parsedData, heap |-> h,
          error |-> ParsingFailed(TypeErrorMessage(data))]
    ELSE LET cleanData == EDI837_cleanData(data.v)
             segs == TrimNonEmpty(Split(cleanData, segmentDelimiter))
         IN IF Len(segs) = 0
            THEN [segments |-> segs, parsedData |-> this.parsedData, heap |-> h,
                  error |-> ParsingFailed(NoValidSegments)]
            ELSE [segments |-> segs, parsedData |-> this.parsedData,
                  heap |-> [h EXCEPT ![this.parsedData] = EDI837_newParsedData],
                  error |-> <<>>]

\* parse up to the call of parseSegments.  this holds the fields segments and
\* parsedData of the instance; error is the message of the error that leaves
\* parse, <<>> when the method goes on to parseSegments.
EDI837_parseEnter(this, h, data) ==
    IF data.t # "string"
    THEN [segments |-> this.segments, parsedData |-> this.parsedData, heap |-> h,
          error |-> ParsingFailed(TypeErrorMessage(data))]
    ELSE LET cleanData == EDI837_cleanData(data.v)
             segs == TrimNonEmpty(Split(cleanData, segmentDelimiter))
         IN IF Len(segs) = 0
            THEN [segments |-> segs, parsedData |-> this.parsedData, heap |-> h,
                  error |-> ParsingFailed(NoValidSegments)]
            ELSE [segments |-> segs, parsedData |-> Len(h) + 1,
                  heap |-> Append(h, EDI837_newParsedData), error |-> <<>>]

\* the tree of the previous call kept and filled further when there is one
EDI835_parseEnter_keepTree(this, h, data) ==
    IF data.t # "string"
    THEN [segments |-> this.segments, parsedData |-> this.parsedData, heap |-> h,
          error |-> ParsingFailed(TypeErrorMessage(data))]
    ELSE LET cleanData == EDI835_cleanData(data.v)
             segs == TrimNonEmpty(Split(cleanData, segmentDelimiter))
         IN IF Len(segs) = 0
            THEN [segments |-> segs, parsedData |-> this.parsedData, heap |-> h,
                  error |-> ParsingFailed(NoValidSegments)]
            ELSE IF Has(h[this.parsedData], "claims")
            THEN [segments |-> segs, parsedData |-> this.parsedData, heap |-> h,
                  error |-> <<>>]
            ELSE [segments |-> segs, parsedData |-> Len(h) + 1,
                  heap |-> Append(h, EDI835_newParsedData), error |-> <<>>]

EDI835_parseEnter(this, h, data) ==
    IF data.t # "string"
    THEN [segments |-> this.segments, parsedData |-> this.parsedData, heap |-> h,
          error |-> ParsingFailed(TypeErrorMessage(data))]
    ELSE LET cleanData == EDI835_cleanData(data.v)
             segs == TrimNonEmpty(Split(cleanData, segmentDelimiter))
         IN IF Len(segs) = 0
            THEN [segments |-> segs, parsedData |-> this.parsedData, heap |-> h,
                  error |-> ParsingFailed(NoValidSegments)]
            ELSE [segments |-> segs, parsedData |-> Len(h) + 1,
                  heap |-> Append(h, EDI835_newParsedData), error |-> <<>>]

\* let currentX = null at the head of parseSegments
EDI837_locals == [claim |-> Null, subscriber |-> Null, patient |-> Null, provider |-> Null]
EDI835_locals == [payment |-> Null, claim |-> Null, provider |-> Null]

-----------------------------------------------------------------------------
(* The tree a caller sees: references followed into the heap *)

RefListFields == {"claims", "services", "providers", "subscribers", "patients", "payments"}

RECURSIVE ExpandObj(_, _)
ExpandObj(h, o) ==
    [f \in DOMAIN o |->
        IF f \in RefListFields
        THEN [j \in 1..Len(o[f]) |-> ExpandObj(h, h[o[f][j]])]
        ELSE o[f]]

TreeValue(h, id) == ExpandObj(h, h[id])

-----------------------------------------------------------------------------
(* Inputs the callers pass to parse.  An input is a concatenation of a few  *)
(* pieces of text of one family; each run draws its inputs from one family. *)

RECURSIVE JoinEls(_)
JoinEls(els) == IF els = <<>> THEN <<>> ELSE <<elementDelimiter>> \o els[1] \o JoinEls(Tail(els))

\* the text tag*e1*...*en~
Seg(tag, els) == tag \o JoinEls(els) \o <<segmentDelimiter>>

Families ==
    {"claims", "attach", "entities", "people", "loose", "address", "envelope", "short", "raw",
     "ignored", "roles"}

Pieces837(family) ==
    CASE family = "claims" ->
            {Seg(tCLM, <<<<"A">>, <<"1">>>>), Seg(tCLM, <<<<"B">>>>),
             Seg(tSV1, <<<<"X">>, <<"2">>>>), Seg(tSV1, <<<<"Y">>>>),
             Seg(tDTP, <<<<"4">>, <<"D">>, <<"8">>>>), Seg(tHI, <<<<"Q", ":", "C">>, <<"R">>>>)}
      [] family = "attach" ->
            {Seg(tCLM, <<<<"A">>, <<"1">>>>), Seg(tCLM, <<<<"B">>>>),
             Seg(tDTP, <<<<"4">>, <<"D">>, <<"8">>>>), Seg(tDTP, <<<<"3">>>>),
             Seg(tHI, <<<<"Q", ":", "C">>, <<"R">>>>), Seg(tHI, <<<<"Z">>>>)}
      [] family = "entities" ->
            {Seg(tNM1, <<cIL, <<"1">>, <<"S">>, <<"J">>>>), Seg(tNM1, <<cQC, <<"1">>, <<"P">>>>),
             Seg(tNM1, <<provider, <<"2">>, <<"V">>>>), Seg(tNM1, <<c85, <<"2">>, <<"W">>>>),
             Seg(tDMG, <<<<"D">>, <<"8">>, <<"M">>>>), Seg(tPRV, <<<<"B">>, <<"C">>, <<"T">>>>)}
      [] family = "people" ->
            {Seg(tNM1, <<cIL, <<"1">>, <<"S">>, <<"J">>>>), Seg(tNM1, <<cIL, <<"1">>, <<"T">>>>),
             Seg(tNM1, <<cQC, <<"1">>, <<"P">>>>), Seg(tNM1, <<cQC, <<"1">>, <<"R">>>>),
             Seg(tNM1, <<provider, <<"2">>, <<"V">>>>), Seg(tNM1, <<provider, <<"2">>, <<"W">>>>)}
      [] family = "loose" ->
            {Seg(tREF, <<<<"A">>, <<"B">>>>), Seg(tREF, <<<<"C">>>>),
             Seg(tPER, <<<<"I">>, <<"N">>>>), Seg(tPER, <<<<"J">>>>),
             Seg(tGS, <<<<"H">>, <<"S">>>>), Seg(tGS, <<<<"K">>>>)}
      [] family = "address" ->
            {Seg(tN3, <<<<"L">>, <<"M">>>>), Seg(tN3, <<<<"K">>>>),
             Seg(tN4, <<<<"C">>, <<"S">>, <<"Z">>>>), Seg(tHL, <<<<"1">>>>),
             Seg(tLX, <<<<"1">>>>), Seg(tSBR, <<<<"P">>>>)}
      [] family = "envelope" ->
            {Seg(tISA, <<<<"0">>, <<"1">>>>), Seg(tST, <<<<"8">>, <<"1">>>>),
             Seg(tSE, <<<<"3">>, <<"1">>>>), Seg(tGE, <<<<"1">>>>), Seg(tIEA, <<<<"1">>>>),
             Seg(tBHT, <<<<"1">>>>)}
      [] family = "short" ->
            {Seg(tCLM, <<>>), Seg(tSV1, <<>>), Seg(tNM1, <<cIL>>), Seg(tDMG, <<>>),
             Seg(tHI, <<>>), Seg(tDTP, <<<<>>>>)}
      [] family = "raw" ->
            {tCLM \o <<"*", "A">>, tSV1 \o <<"*", "X">>, <<"~">>, <<" ">>, <<LF>>, <<CR>>}
      [] family = "ignored" ->
            {Seg(tCLM, <<<<"A">>, <<"1">>>>), Seg(tDTP, <<<<"4">>, <<"D">>, <<"8">>>>),
             Seg(tNM1, <<cIL, <<"1">>, <<"S">>, <<"J">>>>), Seg(tDMG, <<<<"D">>, <<"8">>, <<"M">>>>),
             Seg(tHL, <<<<"1">>>>), Seg(tPAT, <<<<"0">>, <<"1">>>>), Seg(tCLP, <<<<"B">>>>)}
      [] family = "roles" ->
            {Seg(tNM1, <<c85, <<"2">>, <<"W">>>>), Seg(tNM1, <<c82, <<"1">>, <<"R">>>>),
             Seg(tNM1, <<cDN, <<"1">>, <<"F">>>>), Seg(tNM1, <<cPR, <<"2">>, <<"Y">>>>),
             Seg(tNM1, <<c77, <<"2">>, <<"H">>>>), Seg(tNM1, <<constructorName, <<"1">>>>),
             Seg(tNM1, <<toStringName>>), Seg(tNM1, <<<<"Z", "Z">>, <<"1">>>>),
             Seg(tPRV, <<<<"B">>, <<"C">>, <<"T">>>>)}
      [] family = "places" ->
            {Seg(tN3, <<<<"L">>, <<"M">>>>), Seg(tN3, <<<<"K">>>>),
             Seg(tN4, <<<<"C">>, <<"S">>, <<"Z">>>>), Seg(tN4, <<<<"D">>>>),
             Seg(tHL, <<<<"1">>>>), Seg(tPER, <<<<"I">>, <<"N">>>>)}
      [] family = "records" ->
            {Seg(tISA, <<<<"0">>, <<"1">>>>), Seg(tISA, <<<<"9">>>>),
             Seg(tST, <<<<"8">>, <<"1">>>>), Seg(tST, <<<<"7">>>>),
             Seg(tGS, <<<<"H">>, <<"S">>>>), Seg(tHL, <<<<"1">>>>)}
      [] family = "trailers" ->
            {Seg(tSE, <<<<"3">>, <<"1">>>>), Seg(tSE, <<<<"4">>>>),
             Seg(tGE, <<<<"1">>, <<"2">>>>), Seg(tGE, <<<<"5">>>>),
             Seg(tIEA, <<<<"1">>, <<"2">>>>), Seg(tIEA, <<<<"6">>>>)}
      [] family = "lines" ->
            {<<"C", "L">>, <<"M", "*", "A">>, <<"*", "1", "~">>, <<LF>>, <<CR>>,
             <<"~", " ", "~">>}
      [] family = "detail" ->
            {Seg(tCLM, <<<<"A">>, <<"1">>>>), Seg(tCLM, <<<<"A", "^", "B">>>>),
             Seg(tHI, <<<<"Q", ":", "C">>, <<"R", ":", "S">>, <<"T", ":", "U">>>>),
             Seg(tHI, <<<<"B", "^", "C">>>>),
             Seg(tHI, <<<<"Q", ":", "C", ":", "D", "^", "E">>>>),
             Seg(tSV1, <<<<"H", ":", "9">>, <<"2">>>>), Seg(tSV1, <<<<"H", "^", "9">>>>)}
      [] family = "persons" ->
            {Seg(tNM1, <<cIL, <<"1">>, <<"S">>, <<"J">>>>), Seg(tNM1, <<cQC, <<"1">>, <<"P">>>>),
             Seg(tNM1, <<c85, <<"2">>, <<"V">>>>), Seg(tCLM, <<<<"A">>, <<"1">>>>),
             Seg(tDMG, <<<<"D">>, <<"8">>, <<"M">>>>), Seg(tHL, <<<<"1">>>>),
             Seg(tSE, <<<<"3">>, <<"1">>>>)}
      [] family = "padded" ->
            {Seg(tCLM, <<<<" ", "A", " ">>, <<"1", " ">>>>), Seg(tCLM, <<<<"A">>, <<" ">>>>),
             <<" ">> \o Seg(tCLM, <<<<"B">>>>), Seg(tISA, <<<<" ", "0">>, <<"1", "\t">>>>),
             Seg(tCLM, <<<<"0", "1", ".", "5", "0">>, <<"0", "7">>>>), <<LF>>,
             tCLM \o <<"*", "A">>}

Pieces835(family) ==
    CASE family = "claims" ->
            {Seg(tBPR, <<<<"I">>, <<"9">>>>), Seg(tCLP, <<<<"A">>, <<"1">>, <<"5">>>>),
             Seg(tCLP, <<<<"B">>>>), Seg(tSVC, <<<<"X">>, <<"2">>, <<"1">>>>),
             Seg(tSVC, <<<<"Y">>>>), Seg(tCAS, <<<<"C">>, <<"4">>, <<"2">>>>)}
      [] family = "attach" ->
            {Seg(tCLP, <<<<"A">>, <<"1">>, <<"5">>>>), Seg(tCLP, <<<<"B">>>>),
             Seg(tCAS, <<<<"C">>, <<"4">>, <<"2">>>>), Seg(tCAS, <<<<"D">>>>),
             Seg(tAMT, <<<<"U">>, <<"5">>>>), Seg(tQTY, <<<<"Q">>, <<"1">>>>)}
      [] family = "entities" ->
            {Seg(tCLP, <<<<"A">>>>), Seg(tNM1, <<cQC, <<"1">>, <<"P">>>>),
             Seg(tNM1, <<cIL, <<"1">>, <<"S">>>>), Seg(tMIA, <<<<"1">>, <<"2">>>>),
             Seg(tMOA, <<<<"1">>, <<"2">>>>), Seg(tAMT, <<<<"V">>>>),
             Seg(tAMT, <<<<"U">>, <<"5">>>>), Seg(tQTY, <<<<"Q">>, <<"1">>>>),
             Seg(tQTY, <<<<"R">>>>)}
      [] family = "people" ->
            {Seg(tBPR, <<<<"I">>, <<"9">>>>), Seg(tBPR, <<<<"H">>>>),
             Seg(tTRN, <<<<"1">>, <<"T">>>>), Seg(tTRN, <<<<"2">>>>),
             Seg(tDTM, <<<<"4">>, <<"D">>>>), Seg(tDTM, <<<<"5">>>>)}
      [] family = "loose" ->
            {Seg(tREF, <<<<"A">>, <<"B">>>>), Seg(tREF, <<<<"C">>>>),
             Seg(tPER, <<<<"I">>, <<"N">>>>), Seg(tPER, <<<<"J">>>>),
             Seg(tGS, <<<<"H">>, <<"S">>>>), Seg(tGS, <<<<"K">>>>)}
      [] family = "address" ->
            {Seg(tN3, <<<<"L">>, <<"M">>>>), Seg(tN3, <<<<"K">>>>),
             Seg(tN4, <<<<"C">>, <<"S">>, <<"Z">>>>), Seg(tHL, <<<<"1">>>>),
             Seg(tPLB, <<<<"P">>, <<"F">>, <<"L">>, <<"5">>>>), Seg(tPLB, <<<<"Q">>>>)}
      [] family = "envelope" ->
            {Seg(tISA, <<<<"0">>, <<"1">>>>), Seg(tST, <<<<"8">>, <<"1">>>>),
             Seg(tSE, <<<<"3">>, <<"1">>>>), Seg(tGE, <<<<"1">>>>), Seg(tIEA, <<<<"1">>>>),
             Seg(tN1, <<cPR, <<"N">>>>), Seg(tDTM_SVC, <<<<"1">>>>)}
      [] family = "short" ->
            {Seg(tCLP, <<>>), Seg(tSVC, <<>>), Seg(tBPR, <<>>), Seg(tTRN, <<>>),
             Seg(tCAS, <<>>), Seg(tMIA, <<<<>>>>)}
      [] family = "raw" ->
            {tCLP \o <<"*", "A">>, tSVC \o <<"*", "X">>, <<"~">>, <<" ">>, <<LF>>, <<CR>>}
      [] family = "ignored" ->
            {Seg(tBPR, <<<<"I">>, <<"9">>>>), Seg(tCLP, <<<<"A">>, <<"1">>, <<"5">>>>),
             Seg(tCAS, <<<<"C">>, <<"4">>, <<"2">>>>), Seg(tTRN, <<<<"1">>, <<"T">>>>),
             Seg(tHL, <<<<"1">>>>), Seg(tLX, <<<<"1">>>>), Seg(tCLM, <<<<"B">>>>)}
      [] family = "roles" ->
            {Seg(tBPR, <<<<"I">>, <<"9">>>>), Seg(tBPR, <<<<"H">>>>),
             Seg(tCLP, <<<<"A">>, <<"1">>, <<"5">>>>), Seg(tCLP, <<<<"B">>>>),
             Seg(tDTM, <<<<"4">>, <<"D">>>>), Seg(tTRN, <<<<"1">>, <<"T">>>>),
             Seg(tTRN, <<<<"2">>>>)}
      [] family = "places" ->
            {Seg(tN3, <<<<"L">>, <<"M">>>>), Seg(tN3, <<<<"K">>>>),
             Seg(tN4, <<<<"C">>, <<"S">>, <<"Z">>>>), Seg(tN4, <<<<"D">>>>),
             Seg(tHL, <<<<"1">>>>), Seg(tN1, <<cPR, <<"N">>>>)}
      [] family = "records" ->
            {Seg(tISA, <<<<"0">>, <<"1">>>>), Seg(tISA, <<<<"9">>>>),
             Seg(tST, <<<<"8">>, <<"1">>>>), Seg(tST, <<<<"7">>>>),
             Seg(tGS, <<<<"H">>, <<"S">>>>), Seg(tHL, <<<<"1">>>>)}
      [] family = "trailers" ->
            {Seg(tSE, <<<<"3">>, <<"1">>>>), Seg(tSE, <<<<"4">>>>),
             Seg(tGE, <<<<"1">>, <<"2">>>>), Seg(tGE, <<<<"5">>>>),
             Seg(tIEA, <<<<"1">>, <<"2">>>>), Seg(tIEA, <<<<"6">>>>)}
      [] family = "lines" ->
            {<<"C", "L">>, <<"P", "*", "A">>, <<"*", "1", "~">>, <<LF>>, <<CR>>,
             <<"~", " ", "~">>}
      [] family = "detail" ->
            {Seg(tPLB, <<<<"P">>, <<"F">>, <<"L">>, <<"5">>>>), Seg(tPLB, <<<<"Q">>>>),
             Seg(tCLP, <<<<"A">>, <<"1">>, <<"5">>>>), Seg(tCAS, <<<<"C">>, <<"4">>, <<"2">>>>),
             Seg(tBPR, <<<<"I">>, <<"9">>>>), Seg(tSVC, <<<<"H", "^", "9">>, <<"2">>>>)}
      [] family = "persons" ->
            {Seg(tBPR, <<<<"I">>, <<"9">>>>), Seg(tBPR, <<<<"H">>>>),
             Seg(tCLP, <<<<"A">>, <<"1">>, <<"5">>>>), Seg(tN1, <<cPR, <<"N">>>>),
             Seg(tDTM, <<<<"4">>, <<"D">>>>), Seg(tHL, <<<<"1">>>>),
             Seg(tSE, <<<<"3">>, <<"1">>>>)}
      [] family = "padded" ->
            {Seg(tCLP, <<<<" ", "A", " ">>, <<"1", " ">>>>), Seg(tCLP, <<<<"A">>, <<" ">>>>),
             <<" ">> \o Seg(tCLP, <<<<"B">>>>), Seg(tISA, <<<<" ", "0">>, <<"1", "\t">>>>),
             Seg(tCLP, <<<<"0", "1", ".", "5", "0">>, <<"0", "7">>>>), <<LF>>,
             tCLP \o <<"*", "A">>}

\* families of the callers that use one instance for several calls
AgainFamilies == {"again-claims", "again-entities", "again-loose"}

AgainPieces837(family) ==
    CASE family = "again-claims" ->
            {Seg(tCLM, <<<<"A">>, <<"1">>>>), Seg(tSV1, <<<<"X">>, <<"2">>>>),
             Seg(tDTP, <<<<"4">>, <<"D">>, <<"8">>>>), Seg(tHI, <<<<"Q", ":", "C">>, <<"R">>>>)}
      [] family = "again-entities" ->
            {Seg(tNM1, <<cIL, <<"1">>, <<"S">>, <<"J">>>>), Seg(tNM1, <<provider, <<"2">>, <<"V">>>>),
             Seg(tDMG, <<<<"D">>, <<"8">>, <<"M">>>>), Seg(tPRV, <<<<"B">>, <<"C">>, <<"T">>>>)}
      [] family = "again-loose" ->
            {Seg(tN3, <<<<"L">>, <<"M">>>>), Seg(tN4, <<<<"C">>, <<"S">>, <<"Z">>>>),
             Seg(tREF, <<<<"A">>, <<"B">>>>), Seg(tISA, <<<<"0">>, <<"1">>>>)}

AgainPieces835(family) ==
    CASE family = "again-claims" ->
            {Seg(tBPR, <<<<"I">>, <<"9">>>>), Seg(tCLP, <<<<"A">>, <<"1">>, <<"5">>>>),
             Seg(tSVC, <<<<"X">>, <<"2">>, <<"1">>>>), Seg(tCAS, <<<<"C">>, <<"4">>, <<"2">>>>)}
      [] family = "again-entities" ->
            {Seg(tBPR, <<<<"I">>, <<"9">>>>), Seg(tTRN, <<<<"1">>, <<"T">>>>),
             Seg(tCLP, <<<<"A">>>>), Seg(tNM1, <<cQC, <<"1">>, <<"P">>>>)}
      [] family = "again-loose" ->
            {Seg(tN3, <<<<"L">>, <<"M">>>>), Seg(tN4, <<<<"C">>, <<"S">>, <<"Z">>>>),
             Seg(tREF, <<<<"A">>, <<"B">>>>), Seg(tISA, <<<<"0">>, <<"1">>>>)}

Pieces(k, family) ==
    IF family \in AgainFamilies
    THEN (IF k = "837" THEN AgainPieces837(family) ELSE AgainPieces835(family))
    ELSE (IF k = "837" THEN Pieces837(family) ELSE Pieces835(family))

RECURSIVE Concats(_, _)
\* the texts made of at most n pieces of P
Concats(P, n) ==
    IF n = 0 THEN {<<>>}
    ELSE LET shorter == Concats(P, n - 1)
         IN shorter \cup {a \o q : a \in shorter, q \in P}

\* arguments that are not strings
NonStrings == {[t |-> "null"], [t |-> "number"]}

StringArg(text) == [t |-> "string", v |-> text]

\* the arguments a caller of the family passes: texts of at most n pieces
Inputs(k, family, n) == {StringArg(text) : text \in Concats(Pieces(k, family), n)} \cup NonStrings

-----------------------------------------------------------------------------
(* The state machine: one decoder instance and its callers *)

\* the page after DOMContentLoaded: new PageManager(), new EDIApp(),
\* navigateToPage('home'); nothing typed, nothing shown, no timer set.
\* cleared is the observer's note that Clear or a navigation away came after
\* the last request to parse.
AppLoaded ==
    [page |-> "home", input |-> <<>>, resultsHidden |-> TRUE, errorHidden |-> TRUE,
     errorMessage |-> <<>>, indicatorHidden |-> TRUE, btnDisabled |-> FALSE,
     timers |-> <<>>, rendered |-> EmptyObject, cleared |-> FALSE]

\* state after the constructor: this.segments = [], this.parsedData = {}
Constructed ==
    /\ kind \in {"837", "835"}
    /\ heap = <<EmptyObject>>
    /\ segments = <<>>
    /\ parsedData = 1
    /\ pc = "idle"
    /\ ediData = [t |-> "undefined"]
    /\ i = 0
    /\ currentClaim = Null
    /\ currentSubscriber = Null
    /\ currentPatient = Null
    /\ currentProvider = Null
    /\ currentPayment = Null
    /\ app = AppLoaded
    /\ calls = <<>>
    /\ warnings = <<>>

\* an instance that serves one call
Init == Constructed /\ vocab \in Families

\* an instance that serves several calls
InitAgain == Constructed /\ vocab \in AgainFamilies

\* calls the callers of the instance make
CallLimit == IF vocab \in AgainFamilies THEN MaxCalls ELSE 1

This == [segments |-> segments, parsedData |-> parsedData]

\* the entry of a finished call in the callers' record
Outcome(data, message, h, root) ==
    [ediData |-> data,
     threw |-> message # <<>>,
     message |-> message,
     root |-> IF message # <<>> THEN Null ELSE root,
     tree |-> IF message # <<>> THEN EmptyObject ELSE TreeValue(h, root)]

\* parse(ediData) from its entry to the first iteration of parseSegments, or
\* to the error it throws
Enter(r, data) ==
    /\ ediData' = data
    /\ segments' = r.segments
    /\ parsedData' = r.parsedData
    /\ heap' = r.heap
    /\ i' = 0
    /\ currentClaim' = Null
    /\ currentSubscriber' = Null
    /\ currentPatient' = Null
    /\ currentProvider' = Null
    /\ currentPayment' = Null
    /\ IF r.error # <<>>
       THEN /\ pc' = "idle"
            /\ calls' = Append(calls, Outcome(data, r.error, r.heap, r.parsedData))
       ELSE /\ pc' = "loop"
            /\ calls' = calls
    /\ UNCHANGED <<kind, vocab, app, warnings>>

\* what the callers may pass next
NextInputs == Inputs(kind, vocab, IF vocab \in AgainFamilies THEN MaxReSegs ELSE MaxSegs)

EDI837_parse ==
    /\ kind = "837"
    /\ pc = "idle"
    /\ Len(calls) < CallLimit
    /\ \E data \in NextInputs : Enter(EDI837_parseEnter(This, heap, data), data)

EDI835_parse ==
    /\ kind = "835"
    /\ pc = "idle"
    /\ Len(calls) < CallLimit
    /\ \E data \in NextInputs : Enter(EDI835_parseEnter(This, heap, data), data)

\* one iteration of the for loop of parseSegments
EDI837_parseSegments ==
    /\ kind = "837"
    /\ pc = "loop"
    /\ i < Len(segments)
    /\ LET r == EDI837_dispatch(heap, parsedData,
                    [claim |-> currentClaim, subscriber |-> currentSubscriber,
                     patient |-> currentPatient, provider |-> currentProvider],
                    segments[i + 1])
       IN /\ heap' = r.heap
          /\ currentClaim' = r.cur.claim
          /\ currentSubscriber' = r.cur.subscriber
          /\ currentPatient' = r.cur.patient
          /\ currentProvider' = r.cur.provider
    /\ i' = i + 1
    /\ UNCHANGED <<kind, vocab, app, segments, parsedData, pc, ediData, currentPayment, calls,
                   warnings>>

EDI835_parseSegments ==
    /\ kind = "835"
    /\ pc = "loop"
    /\ i < Len(segments)
    /\ LET r == EDI835_dispatch(heap, parsedData,
                    [payment |-> currentPayment, claim |-> currentClaim,
                     provider |-> currentProvider],
                    segments[i + 1])
       IN /\ heap' = r.heap
          /\ currentPayment' = r.cur.payment
          /\ currentClaim' = r.cur.claim
          /\ currentProvider' = r.cur.provider
    /\ i' = i + 1
    /\ UNCHANGED <<kind, vocab, app, segments, parsedData, pc, ediData, currentSubscriber,
                   currentPatient, calls, warnings>>

\* the loop is over: return this.parsedData
ParseReturn ==
    /\ pc = "loop"
    /\ i = Len(segments)
    /\ pc' = "idle"
    /\ calls' = Append(calls, Outcome(ediData, <<>>, heap, parsedData))
    /\ UNCHANGED <<kind, vocab, app, heap, segments, parsedData, ediData, i, currentClaim,
                   currentSubscriber, currentPatient, currentProvider, currentPayment,
                   warnings>>

Next ==
    \/ EDI837_parse
    \/ EDI835_parse
    \/ EDI837_parseSegments
    \/ EDI835_parseSegments
    \/ ParseReturn

Spec == Init /\ [][Next]_vars

SpecAgain == InitAgain /\ [][Next]_vars

-----------------------------------------------------------------------------
(* A handler that raises.  No handler of the two classes can raise on a     *)
(* segment split from a string, so the error is one raised on entry to the  *)
(* handler, as by a handler that was overridden or stubbed; the try/catch   *)
(* around the switch is the code that answers it.                           *)

Dispatched837 ==
    {tISA, tGS, tST, tBHT, tNM1, tPRV, tDMG, tREF, tPER, tCLM, tDTP, tSV1, tN3, tN4, tSBR,
     tHI, tLX, tSE, tGE, tIEA}

Dispatched835 ==
    {tISA, tGS, tST, tBPR, tTRN, tREF, tDTM, tN1, tN3, tN4, tPER, tCLP, tCAS, tNM1, tMIA,
     tMOA, tSVC, tDTM_SVC, tAMT, tQTY, tPLB, tSE, tGE, tIEA}

\* the loop left at the first error (break in the catch block)
LoopAfterCatch_break == Len(segments)

\* catch (segmentError) { console.warn(...) }: the iteration ends, the loop
\* goes on with the next segment
LoopAfterCatch == i + 1

\* the handler of segment i raised before it changed anything
HandlerThrows ==
    /\ pc = "loop"
    /\ i < Len(segments)
    /\ LET segmentId == Split(segments[i + 1], elementDelimiter)[1]
       IN /\ segmentId \in (IF kind = "837" THEN Dispatched837 ELSE Dispatched835)
          /\ warnings' = Append(warnings, [segmentId |-> segmentId, index |-> i])
    /\ i' = LoopAfterCatch
    /\ UNCHANGED <<kind, vocab, app, heap, segments, parsedData, pc, ediData, currentClaim,
                   currentSubscriber, currentPatient, currentProvider, currentPayment, calls>>

FaultFamilies == {"claims", "entities", "address"}

InitFault == Constructed /\ vocab \in FaultFamilies

NextFault == Next \/ HandlerThrows

SpecFault == InitFault /\ [][NextFault]_vars

-----------------------------------------------------------------------------
(* Callers whose inputs exercise the records, the addresses, the text layout *)
(* and the loop's locals                                                    *)

RecordFamilies ==
    {"places", "records", "trailers", "lines", "detail", "persons", "raw", "loose", "claims",
     "attach"}

InitRecords == Constructed /\ vocab \in RecordFamilies

SpecRecords == InitRecords /\ [][Next]_vars

\* callers whose inputs carry whitespace inside and around the elements
TextFamilies == {"padded", "raw"}

InitText == Constructed /\ vocab \in TextFamilies

SpecText == InitText /\ [][Next]_vars

-----------------------------------------------------------------------------
(* Vocabulary of the properties *)

Elements(segment) == Split(segment, elementDelimiter)
TagOf(segment) == Elements(segment)[1]

ClaimTag   == IF kind = "837" THEN tCLM ELSE tCLP
ServiceTag == IF kind = "837" THEN tSV1 ELSE tSVC

\* positions lo..hi of this.segments that carry the tag
Positions(tag, lo, hi) == {j \in lo..hi : TagOf(segments[j]) = tag}

\* number of segments with the tag among the first j
CountTag(tag, j) == Cardinality(Positions(tag, 1, j))

Range(seq) == {seq[j] : j \in 1..Len(seq)}

Root == heap[parsedData]

\* the tree under construction or just returned belongs to the segments held
TreeCurrent ==
    \/ pc = "loop"
    \/ pc = "idle" /\ calls # <<>> /\ ~calls[Len(calls)].threw

\* the nested services of the claim object c, [] when the field is missing
NestedServices(c) == IF Has(heap[c], "services") THEN heap[c].services ELSE <<>>

AllIn(text, chars) == \A j \in 1..Len(text) : text[j] \in chars

LastCall == calls[Len(calls)]

-----------------------------------------------------------------------------
(* C1: a service segment that arrives after a claim segment is nested in     *)
(* the claim of the most recent claim segment before it and in no other     *)
(* claim, in both decoders.                                                 *)
C1_ServiceNestedInItsClaim ==
    TreeCurrent =>
        \A j \in 1..i :
            (TagOf(segments[j]) = ServiceTag /\ CountTag(ClaimTag, j) > 0) =>
                LET service == Root.services[CountTag(ServiceTag, j)]
                    owner == CountTag(ClaimTag, j)
                IN \A n \in 1..Len(Root.claims) :
                       (service \in Range(NestedServices(Root.claims[n]))) <=> (n = owner)

\* a returned tree with two claims, the first of which owns a service
C1_Witness ==
    /\ pc = "idle" /\ calls # <<>> /\ ~LastCall.threw
    /\ Len(Root.claims) = 2
    /\ \E j \in 1..i : TagOf(segments[j]) = ServiceTag /\ CountTag(ClaimTag, j) = 1

(* C2: the flat services list has one entry per service segment, every      *)
(* nested service is an entry of the flat list, and a service segment that  *)
(* arrives before the first claim segment is in the flat list only.         *)
C2_FlatServicesComplete ==
    TreeCurrent =>
        /\ Len(Root.services) = CountTag(ServiceTag, i)
        /\ \A n \in 1..Len(Root.claims) :
               Range(NestedServices(Root.claims[n])) \subseteq Range(Root.services)
        /\ \A j \in 1..i :
               (TagOf(segments[j]) = ServiceTag /\ CountTag(ClaimTag, j) = 0) =>
                   \A n \in 1..Len(Root.claims) :
                       Root.services[CountTag(ServiceTag, j)]
                           \notin Range(NestedServices(Root.claims[n]))

\* a returned tree with a service before the first claim and one after it
C2_Witness ==
    /\ pc = "idle" /\ calls # <<>> /\ ~LastCall.threw
    /\ Len(Root.services) = 2
    /\ TagOf(segments[1]) = ServiceTag
    /\ \E n \in 1..Len(Root.claims) : NestedServices(Root.claims[n]) # <<>>

(* C3: every list of the tree holds one entry per contributing segment, in  *)
(* the order in which the segments arrived; the key element of each entry   *)
(* identifies its segment.                                                  *)

RECURSIVE ArrivalKeys(_, _, _, _)
\* element k of the segments lo..hi that carry the tag, in arrival order
ArrivalKeys(tag, k, lo, hi) ==
    IF lo > hi THEN <<>>
    ELSE (IF TagOf(segments[lo]) = tag THEN <<El(Elements(segments[lo]), k)>> ELSE <<>>)
         \o ArrivalKeys(tag, k, lo + 1, hi)

RECURSIVE ArrivalKeysOfCode(_, _, _, _, _)
\* the same for the segments whose element 1 is the code
ArrivalKeysOfCode(tag, code, k, lo, hi) ==
    IF lo > hi THEN <<>>
    ELSE (IF TagOf(segments[lo]) = tag /\ El(Elements(segments[lo]), 1) = code
          THEN <<El(Elements(segments[lo]), k)>> ELSE <<>>)
         \o ArrivalKeysOfCode(tag, code, k, lo + 1, hi)

\* position of the m-th processed segment that carries the tag
NthPos(tag, m) == CHOOSE j \in Positions(tag, 1, i) : CountTag(tag, j) = m

\* last position before the next segment with the tag, or the last processed
SpanEnd(tag, m) == IF m < CountTag(tag, i) THEN NthPos(tag, m + 1) - 1 ELSE i

\* the field of every entry of the list of the object o; entries are
\* references when byRef
KeysOf(o, list, field, byRef) ==
    IF Has(o, list)
    THEN [n \in 1..Len(o[list]) |->
             (IF byRef THEN heap[o[list][n]] ELSE o[list][n])[field]]
    ELSE <<>>

C3_Flat837 ==
    /\ KeysOf(Root, "groups", "functionalCode", FALSE) = ArrivalKeys(tGS, 1, 1, i)
    /\ KeysOf(Root, "claims", "claimId", TRUE) = ArrivalKeys(tCLM, 1, 1, i)
    /\ KeysOf(Root, "services", "serviceCode", TRUE) = ArrivalKeys(tSV1, 1, 1, i)
    /\ KeysOf(Root, "subscribers", "lastName", TRUE) = ArrivalKeysOfCode(tNM1, cIL, 3, 1, i)
    /\ KeysOf(Root, "patients", "lastName", TRUE) = ArrivalKeysOfCode(tNM1, cQC, 3, 1, i)
    /\ KeysOf(Root, "references", "qualifierCode", FALSE) = ArrivalKeys(tREF, 1, 1, i)
    /\ KeysOf(Root, "contacts", "contactFunctionCode", FALSE) = ArrivalKeys(tPER, 1, 1, i)
    /\ KeysOf(Root, "addresses", "addressLine1", FALSE) = ArrivalKeys(tN3, 1, 1, i)

C3_Nested837 ==
    \A m \in 1..Len(Root.claims) :
        LET claim == heap[Root.claims[m]]
            lo == NthPos(tCLM, m)
            hi == SpanEnd(tCLM, m)
        IN /\ KeysOf(claim, "services", "serviceCode", TRUE) = ArrivalKeys(tSV1, 1, lo, hi)
           /\ KeysOf(claim, "dates", "qualifier", FALSE) = ArrivalKeys(tDTP, 1, lo, hi)
           /\ KeysOf(claim, "healthInfo", "dateQualifier", FALSE) = ArrivalKeys(tHI, 2, lo, hi)

C3_Flat835 ==
    /\ KeysOf(Root, "groups", "functionalCode", FALSE) = ArrivalKeys(tGS, 1, 1, i)
    /\ KeysOf(Root, "payments", "transactionHandlingCode", TRUE) = ArrivalKeys(tBPR, 1, 1, i)
    /\ KeysOf(Root, "claims", "claimSubmitterIdentifier", TRUE) = ArrivalKeys(tCLP, 1, 1, i)
    /\ KeysOf(Root, "services", "serviceCode", TRUE) = ArrivalKeys(tSVC, 1, 1, i)
    /\ KeysOf(Root, "adjustments", "providerIdentifier", FALSE) = ArrivalKeys(tPLB, 1, 1, i)
    /\ KeysOf(Root, "references", "qualifierCode", FALSE) = ArrivalKeys(tREF, 1, 1, i)
    /\ KeysOf(Root, "contacts", "contactFunctionCode", FALSE) = ArrivalKeys(tPER, 1, 1, i)
    /\ KeysOf(Root, "addresses", "addressLine1", FALSE) = ArrivalKeys(tN3, 1, 1, i)

C3_Nested835 ==
    /\ \A m \in 1..Len(Root.claims) :
        LET claim == heap[Root.claims[m]]
            lo == NthPos(tCLP, m)
            hi == SpanEnd(tCLP, m)
        IN /\ KeysOf(claim, "services", "serviceCode", TRUE) = ArrivalKeys(tSVC, 1, lo, hi)
           /\ KeysOf(claim, "adjustments", "claimAdjustmentGroupCode", FALSE)
                  = ArrivalKeys(tCAS, 1, lo, hi)
           /\ KeysOf(claim, "entities", "entityIdentifierCode", FALSE)
                  = ArrivalKeys(tNM1, 1, lo, hi)
           /\ KeysOf(claim, "amounts", "amountQualifierCode", FALSE)
                  = ArrivalKeys(tAMT, 1, lo, hi)
           /\ KeysOf(claim, "quantities", "quantityQualifier", FALSE)
                  = ArrivalKeys(tQTY, 1, lo, hi)
    /\ \A m \in 1..Len(Root.payments) :
        LET payment == heap[Root.payments[m]]
            lo == NthPos(tBPR, m)
            hi == SpanEnd(tBPR, m)
        IN /\ KeysOf(payment, "claims", "claimSubmitterIdentifier", TRUE)
                  = ArrivalKeys(tCLP, 1, lo, hi)
           /\ KeysOf(payment, "dates", "qualifier", FALSE) = ArrivalKeys(tDTM, 1, lo, hi)

C3_ListsInArrivalOrder ==
    TreeCurrent =>
        IF kind = "837" THEN C3_Flat837 /\ C3_Nested837 ELSE C3_Flat835 /\ C3_Nested835

\* a returned tree whose groups list holds two different entries, the one
\* that sorts last first
C3_Witness ==
    /\ pc = "idle" /\ calls # <<>> /\ ~LastCall.threw
    /\ KeysOf(Root, "groups", "functionalCode", FALSE) = << <<"K">>, <<"H">> >>

-----------------------------------------------------------------------------
(* What a newly constructed instance returns for an argument *)

RECURSIVE EDI837_runLoop(_, _, _, _, _)
EDI837_runLoop(h, pd, cur, segs, k) ==
    IF k > Len(segs) THEN h
    ELSE LET r == EDI837_dispatch(h, pd, cur, segs[k])
         IN EDI837_runLoop(r.heap, pd, r.cur, segs, k + 1)

RECURSIVE EDI835_runLoop(_, _, _, _, _)
EDI835_runLoop(h, pd, cur, segs, k) ==
    IF k > Len(segs) THEN h
    ELSE LET r == EDI835_dispatch(h, pd, cur, segs[k])
         IN EDI835_runLoop(r.heap, pd, r.cur, segs, k + 1)

FreshInstance == [segments |-> <<>>, parsedData |-> 1]

\* outcome of new EDI837Parser().parse(data) / new EDI835Parser().parse(data)
FreshOutcome(k, data) ==
    LET e == IF k = "837" THEN EDI837_parseEnter(FreshInstance, <<EmptyObject>>, data)
             ELSE EDI835_parseEnter(FreshInstance, <<EmptyObject>>, data)
        h == IF k = "837"
             THEN EDI837_runLoop(e.heap, e.parsedData, EDI837_locals, e.segments, 1)
             ELSE EDI835_runLoop(e.heap, e.parsedData, EDI835_locals, e.segments, 1)
    IN IF e.error # <<>>
       THEN [threw |-> TRUE, message |-> e.error, tree |-> EmptyObject]
       ELSE [threw |-> FALSE, message |-> <<>>, tree |-> TreeValue(h, e.parsedData)]

(* C4: whatever was parsed before on the instance, a call returns the tree  *)
(* (or raises the error) that a fresh instance returns for the same input:  *)
(* nothing of an earlier input shows in a later output.                     *)
C4_NoLeakBetweenCalls ==
    \A n \in 1..Len(calls) :
        [threw |-> calls[n].threw, message |-> calls[n].message, tree |-> calls[n].tree]
            = FreshOutcome(kind, calls[n].ediData)

\* a second call that returned a tree for an input that starts with a
\* dependent segment, after a first call whose input set the entity it
\* depends on
C4_Witness ==
    /\ Len(calls) = 2
    /\ ~calls[1].threw /\ ~calls[2].threw
    /\ \/ /\ vocab = "again-claims"
          /\ calls[1].ediData.v = Seg(ClaimTag, IF kind = "837" THEN <<<<"A">>, <<"1">>>>
                                                ELSE <<<<"A">>, <<"1">>, <<"5">>>>)
          /\ TagOf(segments[1]) \in {ServiceTag, tDTP, tHI, tCAS}
       \/ /\ vocab = "again-entities"
          /\ TagOf(TrimNonEmpty(Split(calls[1].ediData.v, segmentDelimiter))[1]) \in {tNM1, tBPR}
          /\ TagOf(segments[1]) \in {tDMG, tPRV, tTRN}
       \/ /\ vocab = "again-loose"
          /\ TagOf(TrimNonEmpty(Split(calls[1].ediData.v, segmentDelimiter))[1]) = tN3
          /\ TagOf(segments[1]) = tN4

(* C5: two calls of parse on one instance with the same input return       *)
(* structurally identical trees.                                            *)
C5_SameInputSameTree ==
    \A a, b \in 1..Len(calls) :
        (calls[a].ediData = calls[b].ediData /\ ~calls[a].threw)
            => (~calls[b].threw /\ calls[a].tree = calls[b].tree)

\* the same input parsed twice, with a claim and a service in the tree
C5_Witness ==
    /\ Len(calls) = 2
    /\ calls[1].ediData = calls[2].ediData
    /\ ~calls[1].threw /\ ~calls[2].threw
    /\ heap[parsedData] # EDI837_newParsedData
    /\ heap[parsedData] # EDI835_newParsedData

\* characters that never make a segment: white space, line ends, delimiters
Blank == WhiteSpace \cup {segmentDelimiter}

BlankText(data) == data.t = "string" /\ AllIn(data.v, Blank)

(* C6: a call whose input has no non-empty segment after cleaning           *)
(* returns no tree and raises an error whose message is                     *)
(* "Parsing failed: No valid EDI segments found".                           *)
C6_EmptyPayloadFails ==
    \A n \in 1..Len(calls) :
        BlankText(calls[n].ediData) =>
            /\ calls[n].threw
            /\ calls[n].root = Null
            /\ calls[n].message = <<"Parsing failed: ", "No valid EDI segments found">>

\* C6 with the bare message: the error of an empty payload reads
\* "No valid EDI segments found", with nothing before it
C6_Original ==
    \A n \in 1..Len(calls) :
        BlankText(calls[n].ediData) =>
            /\ calls[n].threw
            /\ calls[n].message = <<"No valid EDI segments found">>

\* a failed call on white space between segment delimiters
C6_Witness ==
    /\ calls # <<>>
    /\ LastCall.threw
    /\ LastCall.ediData.t = "string"
    /\ LastCall.ediData.v = <<"~", " ", "~">>

(* C7: after any call, successful or failed, the instance holds no segment  *)
(* and no tree content left over from an earlier call.                      *)
C7_StateResetEveryCall ==
    (pc = "idle" /\ calls # <<>>) =>
        /\ segments = IF LastCall.ediData.t = "string"
                      THEN TrimNonEmpty(Split(EDI837_cleanData(LastCall.ediData.v),
                                              segmentDelimiter))
                      ELSE <<>>
        /\ \A n \in 1..(Len(calls) - 1) : ~calls[n].threw => parsedData # calls[n].root

(* C8: every error that leaves parse has the message "Parsing failed: "     *)
(* followed by the message of the error raised inside; a non-string         *)
(* argument raises such an error.                                           *)
C8_ErrorsAreWrapped ==
    \A n \in 1..Len(calls) :
        /\ calls[n].ediData.t # "string" => calls[n].threw
        /\ calls[n].threw =>
               /\ calls[n].message[1] = "Parsing failed: "
               /\ Tail(calls[n].message) =
                      IF calls[n].ediData.t = "string"
                      THEN <<"No valid EDI segments found">>
                      ELSE TypeErrorMessage(calls[n].ediData)

\* a call with null that failed
C8_Witness ==
    /\ calls # <<>>
    /\ LastCall.ediData.t = "null"
    /\ LastCall.threw

\* fields of a claim or service that do not come from a positional element
AttachedFields ==
    {"services", "dates", "healthInfo", "adjustments", "entities", "amounts", "quantities",
     "inpatientAdjudication", "outpatientAdjudication"}

\* the tag alone, without any element
BareTag(segment) == Len(Elements(segment)) = 1

AllUndefined(o) == \A f \in (DOMAIN o) \ AttachedFields : o[f] = Undefined

(* C9: a string input with a non-empty segment returns a tree and raises no *)
(* error however short its segments are; the fields of an element beyond    *)
(* the segment's length are undefined, and the segments after a short one   *)
(* are processed.                                                           *)
C9_ShortSegmentsTolerated ==
    /\ \A n \in 1..Len(calls) :
           (calls[n].ediData.t = "string" /\ ~AllIn(calls[n].ediData.v, Blank))
               => ~calls[n].threw
    /\ (pc = "idle" /\ calls # <<>> /\ ~LastCall.threw) =>
           /\ i = Len(segments)
           /\ Len(Root.claims) = CountTag(ClaimTag, Len(segments))
           /\ Len(Root.services) = CountTag(ServiceTag, Len(segments))
           /\ \A j \in 1..Len(segments) :
                  /\ (TagOf(segments[j]) = ClaimTag /\ BareTag(segments[j]))
                         => AllUndefined(heap[Root.claims[CountTag(ClaimTag, j)]])
                  /\ (TagOf(segments[j]) = ServiceTag /\ BareTag(segments[j]))
                         => AllUndefined(heap[Root.services[CountTag(ServiceTag, j)]])

\* a returned tree for a bare claim tag followed by a bare service tag, the
\* service nested in the claim
C9_Witness ==
    /\ pc = "idle" /\ calls # <<>> /\ ~LastCall.threw
    /\ Len(segments) >= 2
    /\ segments[1] = ClaimTag
    /\ segments[2] = ServiceTag
    /\ NestedServices(Root.claims[1]) # <<>>

RECURSIVE Surviving(_, _)
\* the first n segments without those whose handler raised
Surviving(n, failed) ==
    IF n = 0 THEN <<>>
    ELSE Surviving(n - 1, failed) \o (IF n - 1 \in failed THEN <<>> ELSE <<segments[n]>>)

FailedIndexes == {warnings[n].index : n \in 1..Len(warnings)}

\* the tree a fresh instance builds from the segments segs
TreeOfSegments(k, segs) ==
    IF k = "837"
    THEN TreeValue(EDI837_runLoop(<<EmptyObject, EDI837_newParsedData>>, 2, EDI837_locals,
                                  segs, 1), 2)
    ELSE TreeValue(EDI835_runLoop(<<EmptyObject, EDI835_newParsedData>>, 2, EDI835_locals,
                                  segs, 1), 2)

(* C10: when a handler raises, the loop goes on: at every point of the loop *)
(* and at the return, the tree is the one built from the segments processed *)
(* so far without the failed ones, every segment is visited, and parse      *)
(* returns a tree.                                                          *)
C10_HandlerErrorIsolated ==
    /\ TreeCurrent => TreeValue(heap, parsedData) = TreeOfSegments(kind, Surviving(i, FailedIndexes))
    /\ (pc = "idle" /\ calls # <<>> /\ LastCall.ediData.t = "string"
            /\ ~AllIn(LastCall.ediData.v, Blank))
           => (~LastCall.threw /\ i = Len(segments))

\* a returned tree of three segments, the handler of the second having
\* raised, with entries of the first and of the third
C10_Witness ==
    /\ pc = "idle" /\ calls # <<>> /\ ~LastCall.threw
    /\ Len(segments) = 3
    /\ FailedIndexes = {1}
    /\ TagOf(segments[1]) = ClaimTag /\ TagOf(segments[3]) = ClaimTag
    /\ Len(Root.claims) = 2

-----------------------------------------------------------------------------
(* Segments without a case label *)

Dispatched == IF kind = "837" THEN Dispatched837 ELSE Dispatched835

RECURSIVE Recognized(_)
\* the first n segments without those whose tag has no case label
Recognized(n) ==
    IF n = 0 THEN <<>>
    ELSE Recognized(n - 1) \o (IF TagOf(segments[n]) \in Dispatched THEN <<segments[n]>> ELSE <<>>)

Pointers ==
    <<currentClaim, currentSubscriber, currentPatient, currentProvider, currentPayment>>

-----------------------------------------------------------------------------
(* NM1 in the 837 decoder *)

ProviderCodes == {c85, c82, cDN}

\* the list the role of an entity-type code stands for, "" when none
RoleList(code) ==
    CASE code = cIL -> "subscribers"
      [] code = cQC -> "patients"
      [] code \in ProviderCodes -> "providers"
      [] OTHER -> ""

\* the local that holds the current entity of a list
CurrentOf(list) ==
    CASE list = "subscribers" -> currentSubscriber
      [] list = "patients" -> currentPatient
      [] list = "providers" -> currentProvider

\* an entry of the list was built from the NM1 segment
Listed(list, segment) ==
    \E n \in 1..Len(Root[list]) :
        /\ heap[Root[list][n]].entityTypeCode = El(Elements(segment), 1)
        /\ heap[Root[list][n]].lastName = El(Elements(segment), 3)

(* C12: in the 837 decoder every processed NM1 whose code is IL, QC or one  *)
(* of 85, 82, DN has its entity in subscribers, patients or providers       *)
(* respectively, and right after such a segment the entity is the last of   *)
(* its list and the current subscriber, patient or provider.                *)
C12_NM1RoutedByRole ==
    (kind = "837" /\ TreeCurrent) =>
        \A j \in 1..i :
            LET list == RoleList(El(Elements(segments[j]), 1))
            IN (TagOf(segments[j]) = tNM1 /\ list # "") =>
                   /\ Listed(list, segments[j])
                   /\ (j = i /\ pc = "loop") =>
                          /\ Root[list] # <<>>
                          /\ CurrentOf(list) = Root[list][Len(Root[list])]

(* C13: in the 837 decoder a PRV that follows an NM1 with a provider code   *)
(* (85, 82, DN), with no other NM1 in between, leaves its three elements on *)
(* the entry of that NM1 in the providers list; while no NM1 has been       *)
(* processed, PRV segments leave the tree as it would be without them.      *)
C13_PRVAttachesToProvider ==
    (kind = "837" /\ TreeCurrent) =>
        /\ \A j \in 2..i :
              (/\ TagOf(segments[j]) = tPRV
               /\ TagOf(segments[j - 1]) = tNM1
               /\ El(Elements(segments[j - 1]), 1) \in ProviderCodes
               /\ \A m \in (j + 1)..i : TagOf(segments[m]) \notin {tNM1, tPRV})
              => \E n \in 1..Len(Root.providers) :
                     LET entry == heap[Root.providers[n]]
                     IN /\ entry.entityTypeCode = El(Elements(segments[j - 1]), 1)
                        /\ Has(entry, "providerCode")
                        /\ entry.providerCode = El(Elements(segments[j]), 1)
                        /\ entry.referenceIdQualifier = El(Elements(segments[j]), 2)
                        /\ entry.referenceId = El(Elements(segments[j]), 3)
        /\ CountTag(tNM1, i) = 0 =>
              TreeValue(heap, parsedData)
                  = TreeOfSegments(kind, SelectSeq(SubSeq(segments, 1, i),
                                                   LAMBDA seg : TagOf(seg) # tPRV))

\* the role the resolver is to return for a code
RoleOf(code) ==
    CASE code = c85 -> <<"b","i","l","l","i","n","g","_","p","r","o","v","i","d","e","r">>
      [] code = cIL -> <<"s","u","b","s","c","r","i","b","e","r">>
      [] code = cQC -> <<"p","a","t","i","e","n","t">>
      [] code = cPR -> <<"p","a","y","e","r">>
      [] code = c82 -> <<"r","e","n","d","e","r","i","n","g","_","p","r","o","v","i","d","e","r">>
      [] code = c77 -> <<"s","e","r","v","i","c","e","_","f","a","c","i","l","i","t","y">>
      [] code = cDN -> <<"r","e","f","e","r","r","i","n","g","_","p","r","o","v","i","d","e","r">>
      [] OTHER -> code

(* C14: for the code of every NM1 segment the 837 decoder holds, the        *)
(* resolver returns the role of the seven known codes and every other code  *)
(* unchanged.                                                               *)
C14_ResolverTotal ==
    kind = "837" =>
        \A j \in 1..Len(segments) :
            TagOf(segments[j]) = tNM1 =>
                LET code == El(Elements(segments[j]), 1)
                IN /\ EDI837_getEntityType(code) = RoleOf(code)
                   /\ EDI837_parseNM1(Elements(segments[j])).type = RoleOf(code)

-----------------------------------------------------------------------------
(* DMG in the 837 decoder *)

\* number of NM1 segments with the code among the first j
CountCode(code, j) ==
    Cardinality({m \in Positions(tNM1, 1, j) : El(Elements(segments[m]), 1) = code})

\* processed DMG segments that arrived while subscriber s was the current
\* subscriber (s > 0), or with no subscriber while patient p was current
DMGFor(s, p) ==
    {j \in Positions(tDMG, 1, i) :
        IF s > 0 THEN CountCode(cIL, j) = s
        ELSE CountCode(cIL, j) = 0 /\ CountCode(cQC, j) = p}

Latest(S) == CHOOSE j \in S : \A m \in S : m <= j

\* the demographics of the entity are those of the latest DMG of the set,
\* and there are none when the set is empty
DemographicsFrom(entity, S) ==
    IF S = {} THEN ~Has(heap[entity], "demographics")
    ELSE /\ Has(heap[entity], "demographics")
         /\ heap[entity].demographics =
                [dateFormat |-> El(Elements(segments[Latest(S)]), 1),
                 birthDate |-> El(Elements(segments[Latest(S)]), 2),
                 gender |-> El(Elements(segments[Latest(S)]), 3)]

(* C15: in the 837 decoder every subscriber carries the demographics of the *)
(* latest DMG that arrived while it was the current subscriber, every       *)
(* patient those of the latest DMG that arrived while it was the current    *)
(* patient and no subscriber was set, and no other entity carries any.      *)
C15_DMGSubscriberFirst ==
    (kind = "837" /\ TreeCurrent) =>
        /\ \A s \in 1..Len(Root.subscribers) :
               DemographicsFrom(Root.subscribers[s], DMGFor(s, 0))
        /\ \A p \in 1..Len(Root.patients) :
               DemographicsFrom(Root.patients[p], DMGFor(0, p))
        /\ \A v \in 1..Len(Root.providers) : ~Has(heap[Root.providers[v]], "demographics")

\* NM1*QC, NM1*IL, DMG: the birth date is on the subscriber, the patient has
\* no demographics
C15_Witness ==
    /\ kind = "837" /\ pc = "idle" /\ calls # <<>> /\ ~LastCall.threw
    /\ Len(segments) = 3
    /\ TagOf(segments[3]) = tDMG
    /\ Len(Root.patients) = 1 /\ Len(Root.subscribers) = 1
    /\ Has(heap[Root.subscribers[1]], "demographics")
    /\ heap[Root.subscribers[1]].demographics.birthDate = El(Elements(segments[3]), 2)
    /\ heap[Root.subscribers[1]].demographics.birthDate = <<"8">>
    /\ ~Has(heap[Root.patients[1]], "demographics")

-----------------------------------------------------------------------------
(* Segments that depend on the current claim *)

(* C16: the content of every claim of the tree is what its own claim segment *)
(* and the segments up to the next claim segment build on their own: every  *)
(* DTP, HI (837), CAS, NM1, AMT, QTY, MIA, MOA (835) after a claim segment  *)
(* is on the claim of the most recent claim segment and on no earlier one.  *)
C16_AttachedToLatestClaim ==
    TreeCurrent =>
        \A m \in 1..Len(Root.claims) :
            ExpandObj(heap, heap[Root.claims[m]])
                = TreeOfSegments(kind, SubSeq(segments, NthPos(ClaimTag, m),
                                              SpanEnd(ClaimTag, m))).claims[1]

\* two claims, then a dependent segment: it is on the second claim only
C16_Witness ==
    /\ pc = "idle" /\ calls # <<>> /\ ~LastCall.threw
    /\ Len(segments) = 3
    /\ TagOf(segments[1]) = ClaimTag /\ TagOf(segments[2]) = ClaimTag
    /\ TagOf(segments[3]) \in (IF kind = "837" THEN {tDTP, tHI} ELSE {tCAS, tNM1, tAMT, tQTY, tMIA, tMOA})
    /\ DOMAIN heap[Root.claims[1]] = DOMAIN (IF kind = "837" THEN EDI837_parseCLM(<<>>)
                                             ELSE EDI835_parseCLP(<<>>))
    /\ DOMAIN heap[Root.claims[2]] # DOMAIN heap[Root.claims[1]]

-----------------------------------------------------------------------------
(* Dependent segments without a current entity *)

\* the next segment depends on a pointer that is not set
Orphan(tag) ==
    IF kind = "837"
    THEN \/ tag \in {tDTP, tHI} /\ currentClaim = Null
         \/ tag = tDMG /\ currentSubscriber = Null /\ currentPatient = Null
         \/ tag = tPRV /\ currentProvider = Null
    ELSE \/ tag \in {tCAS, tNM1, tAMT, tQTY, tMIA, tMOA} /\ currentClaim = Null
         \/ tag = tTRN /\ currentPayment = Null

\* the next segment has a standalone entry and no owner to nest it in
Unowned(tag) ==
    \/ tag = ServiceTag /\ currentClaim = Null
    \/ kind = "835" /\ tag = tCLP /\ currentPayment = Null

(* C17: a step of the loop on a dependent segment whose pointer is unset    *)
(* goes on to the next segment with the heap and the pointers as they were; *)
(* a step on a service segment without a current claim, or on a CLP without *)
(* a current payment, adds exactly one entry, to the flat services / claims *)
(* list, and changes no object that existed before.                         *)
C17_OrphansDropped ==
    [][(pc = "loop" /\ i < Len(segments)) =>
          LET tag == TagOf(segments[i + 1])
          IN /\ Orphan(tag) =>
                   (heap' = heap /\ Pointers' = Pointers /\ pc' = "loop" /\ i' = i + 1)
             /\ Unowned(tag) =>
                   LET list == IF tag = ServiceTag THEN "services" ELSE "claims"
                   IN /\ pc' = "loop" /\ i' = i + 1
                      /\ Len(heap') = Len(heap) + 1
                      /\ heap'[parsedData][list] = Append(Root[list], Len(heap'))
                      /\ \A o \in 1..Len(heap) :
                             o # parsedData => heap'[o] = heap[o]
                      /\ \A f \in DOMAIN Root : f # list => heap'[parsedData][f] = Root[f]]_vars

\* a returned tree whose first segment was a dependent segment with nothing
\* to attach to and whose second segment then made a claim
C17_Witness ==
    /\ pc = "idle" /\ calls # <<>> /\ ~LastCall.threw
    /\ Len(segments) = 2
    /\ TagOf(segments[1]) \in (IF kind = "837" THEN {tDTP, tHI} ELSE {tCAS, tAMT, tMIA})
    /\ TagOf(segments[2]) = ClaimTag
    /\ Len(Root.claims) = 1
    /\ DOMAIN heap[Root.claims[1]] = DOMAIN (IF kind = "837" THEN EDI837_parseCLM(<<>>)
                                             ELSE EDI835_parseCLP(<<>>))

-----------------------------------------------------------------------------
(* DTM in the 835 decoder *)

RECURSIVE DTMRecords(_, _)
\* the date records of the DTM segments lo..hi, in arrival order
DTMRecords(lo, hi) ==
    IF lo > hi THEN <<>>
    ELSE (IF TagOf(segments[lo]) = tDTM
          THEN <<[qualifier |-> El(Elements(segments[lo]), 1),
                  date |-> El(Elements(segments[lo]), 2),
                  time |-> El(Elements(segments[lo]), 3),
                  timeCode |-> El(Elements(segments[lo]), 4)]>>
          ELSE <<>>)
         \o DTMRecords(lo + 1, hi)

DatesOf(o) == IF Has(o, "dates") THEN o.dates ELSE <<>>

(* C18: in the 835 decoder the dates list of every payment holds the        *)
(* records of the DTM segments that arrived while it was the current        *)
(* payment, in arrival order, whether or not a claim was current; no claim  *)
(* gets a dates list.                                                       *)
C18_DTMOnPayment ==
    (kind = "835" /\ TreeCurrent) =>
        /\ \A m \in 1..Len(Root.payments) :
               DatesOf(heap[Root.payments[m]])
                   = DTMRecords(NthPos(tBPR, m), SpanEnd(tBPR, m))
        /\ \A c \in 1..Len(Root.claims) : ~Has(heap[Root.claims[c]], "dates")

\* C18 with the claim as the owner: the dates list of every claim holds the
\* records of the DTM segments that arrived while it was the current claim
C18_DTMOnClaim ==
    (kind = "835" /\ TreeCurrent) =>
        \A c \in 1..Len(Root.claims) :
            DatesOf(heap[Root.claims[c]]) = DTMRecords(NthPos(tCLP, c), SpanEnd(tCLP, c))

\* BPR, CLP, DTM: the date is on the payment, the claim has no dates
C18_Witness ==
    /\ kind = "835" /\ pc = "idle" /\ calls # <<>> /\ ~LastCall.threw
    /\ Len(segments) = 3
    /\ TagOf(segments[1]) = tBPR /\ TagOf(segments[2]) = tCLP /\ TagOf(segments[3]) = tDTM
    /\ Len(DatesOf(heap[Root.payments[1]])) = 1
    /\ ~Has(heap[Root.claims[1]], "dates")

-----------------------------------------------------------------------------
(* Payments of the 835 decoder *)

\* the trace record of a TRN segment
TraceOf(segment) ==
    [traceTypeCode |-> El(Elements(segment), 1),
     traceNumber |-> El(Elements(segment), 2),
     originatingCompanyId |-> El(Elements(segment), 3),
     referenceId |-> El(Elements(segment), 4)]

(* C19: in the 835 decoder the trace number of every payment is the record  *)
(* of the latest TRN that arrived between its BPR and the next BPR, and a   *)
(* payment with no TRN in that span has none: a TRN replaces the trace      *)
(* number of the current payment and touches no earlier payment.            *)
C19_TRNOnCurrentPayment ==
    (kind = "835" /\ TreeCurrent) =>
        \A m \in 1..Len(Root.payments) :
            LET payment == heap[Root.payments[m]]
                S == Positions(tTRN, NthPos(tBPR, m), SpanEnd(tBPR, m))
            IN IF S = {} THEN ~Has(payment, "traceNumber")
               ELSE /\ Has(payment, "traceNumber")
                    /\ payment.traceNumber = TraceOf(segments[Latest(S)])

\* BPR, TRN*1*T, TRN*2: the payment carries the second trace number
C19_Witness ==
    /\ kind = "835" /\ pc = "idle" /\ calls # <<>> /\ ~LastCall.threw
    /\ Len(segments) = 3
    /\ TagOf(segments[1]) = tBPR /\ TagOf(segments[2]) = tTRN /\ TagOf(segments[3]) = tTRN
    /\ El(Elements(segments[2]), 1) # El(Elements(segments[3]), 1)
    /\ heap[Root.payments[1]].traceNumber.traceTypeCode = El(Elements(segments[3]), 1)

RECURSIVE IsSubsequence(_, _)
\* a is b with some entries left out
IsSubsequence(a, b) ==
    IF a = <<>> THEN TRUE
    ELSE IF b = <<>> THEN FALSE
    ELSE IF a[1] = b[1] THEN IsSubsequence(Tail(a), Tail(b))
    ELSE IsSubsequence(a, Tail(b))

ClaimsOf(payment) == IF Has(heap[payment], "claims") THEN heap[payment].claims ELSE <<>>

RECURSIVE OwnedClaims(_)
\* the claims lists of the first m payments, one after the other
OwnedClaims(m) == IF m = 0 THEN <<>> ELSE OwnedClaims(m - 1) \o ClaimsOf(Root.payments[m])

(* C20: in the 835 decoder the flat claims list has one claim per processed *)
(* CLP; the claim of a CLP is in the claims list of the payment of the most *)
(* recent BPR before it and of no other payment, and of none when no BPR    *)
(* came before; the payments' lists one after the other are a subsequence   *)
(* of the flat list.                                                        *)
C20_ClaimOwnedByOnePayment ==
    (kind = "835" /\ TreeCurrent) =>
        /\ Len(Root.claims) = CountTag(tCLP, i)
        /\ \A j \in Positions(tCLP, 1, i) :
               LET claim == Root.claims[CountTag(tCLP, j)]
               IN \A m \in 1..Len(Root.payments) :
                      (claim \in Range(ClaimsOf(Root.payments[m]))) <=> (m = CountTag(tBPR, j))
        /\ IsSubsequence(OwnedClaims(Len(Root.payments)), Root.claims)

\* CLP, BPR, CLP, then returned: the first claim has no owner, the second is
\* owned by the payment
C20_Witness ==
    /\ kind = "835" /\ pc = "idle" /\ calls # <<>> /\ ~LastCall.threw
    /\ Len(segments) = 3
    /\ TagOf(segments[1]) = tCLP /\ TagOf(segments[2]) = tBPR /\ TagOf(segments[3]) = tCLP
    /\ Len(Root.claims) = 2
    /\ ClaimsOf(Root.payments[1]) = <<Root.claims[2]>>

-----------------------------------------------------------------------------
(* Addresses *)

AddressesOf(o) == IF Has(o, "addresses") THEN o.addresses ELSE <<>>

\* the address entry the N3 at position a and the N4 segments of the set S
\* make: the fields of the N3, and those of the latest N4 when there is one
AddressFrom(a, S) ==
    LET n3 == [addressLine1 |-> El(Elements(segments[a]), 1),
               addressLine2 |-> El(Elements(segments[a]), 2)]
    IN IF S = {} THEN n3
       ELSE Put(Put(Put(Put(n3, "city", El(Elements(segments[Latest(S)]), 1)),
                        "state", El(Elements(segments[Latest(S)]), 2)),
                    "postalCode", El(Elements(segments[Latest(S)]), 3)),
                "countryCode", El(Elements(segments[Latest(S)]), 4))

(* C21: the addresses list has one entry per processed N3, in order; each   *)
(* entry holds the two lines of its N3 and, when N4 segments arrived        *)
(* between its N3 and the next N3, the city, state, postal code and country *)
(* code of the latest of them, and no such field otherwise; an N4 before    *)
(* the first N3 shows nowhere.                                              *)
C21_N4OnLatestAddress ==
    TreeCurrent =>
        /\ Len(AddressesOf(Root)) = CountTag(tN3, i)
        /\ \A n \in 1..Len(AddressesOf(Root)) :
               Root.addresses[n] =
                   AddressFrom(NthPos(tN3, n),
                               Positions(tN4, NthPos(tN3, n), SpanEnd(tN3, n)))

\* N3, N3, N4: the city is on the second address, the first has none
C21_Witness ==
    /\ pc = "idle" /\ calls # <<>> /\ ~LastCall.threw
    /\ Len(segments) = 3
    /\ TagOf(segments[1]) = tN3 /\ TagOf(segments[2]) = tN3 /\ TagOf(segments[3]) = tN4
    /\ Len(Root.addresses) = 2
    /\ ~Has(Root.addresses[1], "city")
    /\ Root.addresses[2].city = El(Elements(segments[3]), 1)

-----------------------------------------------------------------------------
(* Single-valued records *)

\* tag and field of the records a segment assigns as a whole
SingleRecords ==
    {<<tISA, "interchange">>, <<tST, "transactionSet">>, <<tSE, "transactionSetTrailer">>,
     <<tGE, "functionalGroupTrailer">>, <<tIEA, "interchangeTrailer">>}

(* C22: for ISA, ST, SE, GE and IEA the record in the tree is the one the   *)
(* last processed segment of the tag makes when parsed alone, so nothing of *)
(* an earlier occurrence is left in it; without such a segment the record   *)
(* is absent, the interchange being the empty object.                       *)
C22_LastRecordWins ==
    TreeCurrent =>
        \A r \in SingleRecords :
            LET S == Positions(r[1], 1, i)
            IN IF S = {}
               THEN IF r[2] = "interchange" THEN Root.interchange = EmptyObject
                    ELSE ~Has(Root, r[2])
               ELSE /\ Has(Root, r[2])
                    /\ Root[r[2]] = TreeOfSegments(kind, <<segments[Latest(S)]>>)[r[2]]

\* ST*8*1 then ST*7: the control number of the first is gone
C22_Witness ==
    /\ pc = "idle" /\ calls # <<>> /\ ~LastCall.threw
    /\ Len(segments) = 2
    /\ TagOf(segments[1]) = tST /\ TagOf(segments[2]) = tST
    /\ El(Elements(segments[1]), 2) # Undefined
    /\ Root.transactionSet.type = El(Elements(segments[2]), 1)
    /\ Root.transactionSet.controlNumber = Undefined
    /\ Root.interchange = EmptyObject

-----------------------------------------------------------------------------
(* Presence of the list-valued fields *)

\* lists of the root, each with the tag that contributes to it: those the
\* tree initialisation creates, and those a handler creates on first use
RootLists ==
    IF kind = "837"
    THEN {<<"groups", tGS>>, <<"claims", tCLM>>, <<"services", tSV1>>}
    ELSE {<<"groups", tGS>>, <<"payments", tBPR>>, <<"claims", tCLP>>, <<"services", tSVC>>,
          <<"adjustments", tPLB>>, <<"references", tREF>>, <<"contacts", tPER>>,
          <<"addresses", tN3>>}

RootListsByCode ==
    IF kind = "837"
    THEN {<<"providers", provider>>, <<"subscribers", cIL>>, <<"patients", cQC>>}
    ELSE {}

LazyRootLists ==
    IF kind = "837"
    THEN {<<"references", tREF>>, <<"contacts", tPER>>, <<"addresses", tN3>>}
    ELSE {}

ClaimLists ==
    IF kind = "837"
    THEN {<<"services", tSV1>>, <<"dates", tDTP>>, <<"healthInfo", tHI>>}
    ELSE {<<"services", tSVC>>, <<"adjustments", tCAS>>, <<"entities", tNM1>>,
          <<"amounts", tAMT>>, <<"quantities", tQTY>>}

PaymentLists == {<<"claims", tCLP>>, <<"dates", tDTM>>}

\* a list created on first use: there exactly when a segment of the set
\* contributed, and then not empty
LazyList(o, l, S) == (Has(o, l) <=> S # {}) /\ (Has(o, l) => o[l] # <<>>)

(* C23: the lists the tree initialisation creates are always present, and   *)
(* empty exactly when no segment contributed; every other list (837         *)
(* references, contacts and addresses, the lists of a claim, the lists of a *)
(* payment) is absent until a segment contributes and never present empty.  *)
C23_ListsPresentOrAbsent ==
    TreeCurrent =>
        /\ \A r \in RootLists :
               Has(Root, r[1]) /\ (Root[r[1]] = <<>> <=> CountTag(r[2], i) = 0)
        /\ \A r \in RootListsByCode :
               Has(Root, r[1]) /\ (Root[r[1]] = <<>> <=> CountCode(r[2], i) = 0)
        /\ \A r \in LazyRootLists : LazyList(Root, r[1], Positions(r[2], 1, i))
        /\ \A m \in 1..Len(Root.claims) : \A r \in ClaimLists :
               LazyList(heap[Root.claims[m]], r[1],
                        Positions(r[2], NthPos(ClaimTag, m), SpanEnd(ClaimTag, m)))
        /\ kind = "835" =>
               \A m \in 1..Len(Root.payments) : \A r \in PaymentLists :
                   LazyList(heap[Root.payments[m]], r[1],
                            Positions(r[2], NthPos(tBPR, m), SpanEnd(tBPR, m)))

\* C23 with every list created in advance: all the lists named are present
\* whatever the input
C23_AllListsPresent ==
    TreeCurrent =>
        /\ \A r \in RootLists \cup RootListsByCode \cup LazyRootLists : Has(Root, r[1])
        /\ \A m \in 1..Len(Root.claims) : \A r \in ClaimLists :
               Has(heap[Root.claims[m]], r[1])
        /\ kind = "835" =>
               \A m \in 1..Len(Root.payments) : \A r \in PaymentLists :
                   Has(heap[Root.payments[m]], r[1])

\* a returned 837 tree of one claim: the lists of the initialisation are
\* there, references and the claim's dates are not
C23_Witness ==
    /\ kind = "837" /\ pc = "idle" /\ calls # <<>> /\ ~LastCall.threw
    /\ Len(segments) = 1 /\ TagOf(segments[1]) = tCLM
    /\ Root.groups = <<>> /\ Root.services = <<>>
    /\ ~Has(Root, "references")
    /\ ~Has(heap[Root.claims[1]], "dates")

-----------------------------------------------------------------------------
(* PLB in the 835 decoder *)

RECURSIVE PLBRecords(_)
\* the provider-level adjustments of the PLB segments among the first n
PLBRecords(n) ==
    IF n = 0 THEN <<>>
    ELSE PLBRecords(n - 1) \o
         (IF TagOf(segments[n]) = tPLB
          THEN <<[providerIdentifier |-> El(Elements(segments[n]), 1),
                  fiscalPeriodDate |-> El(Elements(segments[n]), 2),
                  adjustmentIdentifier1 |-> El(Elements(segments[n]), 3),
                  providerAdjustmentAmount1 |-> El(Elements(segments[n]), 4),
                  adjustmentIdentifier2 |-> El(Elements(segments[n]), 5),
                  providerAdjustmentAmount2 |-> El(Elements(segments[n]), 6)]>>
          ELSE <<>>)

(* C24: in the 835 decoder the top-level adjustments list holds exactly the *)
(* records of the processed PLB segments, in order, so no CAS adjustment is *)
(* in it; a step on a PLB changes nothing but that list: no claim, payment  *)
(* or service object and no pointer, with or without a current claim or     *)
(* payment.                                                                 *)
C24_PLBIndependentOfClaims ==
    /\ []((kind = "835" /\ TreeCurrent) => Root.adjustments = PLBRecords(i))
    /\ [][(kind = "835" /\ pc = "loop" /\ i < Len(segments) /\ TagOf(segments[i + 1]) = tPLB)
            => /\ Len(heap') = Len(heap)
               /\ \A o \in 1..Len(heap) : o # parsedData => heap'[o] = heap[o]
               /\ \A f \in DOMAIN Root : f # "adjustments" => heap'[parsedData][f] = Root[f]
               /\ Len(heap'[parsedData].adjustments) = Len(Root.adjustments) + 1
               /\ Pointers' = Pointers]_vars

\* BPR, CLP, CAS, PLB... within three segments: a claim with a CAS adjustment
\* and then a PLB, the top-level list holding the PLB alone
C24_Witness ==
    /\ kind = "835" /\ pc = "idle" /\ calls # <<>> /\ ~LastCall.threw
    /\ Len(segments) = 3
    /\ TagOf(segments[1]) = tCLP /\ TagOf(segments[2]) = tCAS /\ TagOf(segments[3]) = tPLB
    /\ Len(Root.adjustments) = 1
    /\ Root.adjustments[1].providerIdentifier = El(Elements(segments[3]), 1)
    /\ Len(heap[Root.claims[1]].adjustments) = 1

-----------------------------------------------------------------------------
(* composite elements in the 837 decoder *)

\* part k of a composite element separated on '^'
CaretPart(e, k) == IF e = Undefined THEN Undefined ELSE El(Split(e, "^"), k)

Caret(e) == e # Undefined /\ \E k \in 1..Len(e) : e[k] = "^"

(* C25: the diagnosis composite of an HI segment is separated on '^', its   *)
(* first part the code qualifier and its second the code; outside the       *)
(* composite '^' is data: the claim id of a CLM keeps it.                   *)
C25_CaretSeparatesComposites ==
    [][(kind = "837" /\ pc = "loop" /\ i < Len(segments))
        => LET elements == Elements(segments[i + 1])
           IN /\ (TagOf(segments[i + 1]) = tHI /\ currentClaim # Null)
                   => LET list == heap'[currentClaim].healthInfo
                          healthInfo == list[Len(list)]
                      IN /\ healthInfo.codeQualifier = CaretPart(El(elements, 1), 0)
                         /\ healthInfo.code = CaretPart(El(elements, 1), 1)
                         /\ healthInfo.dateQualifier = El(elements, 2)
              /\ TagOf(segments[i + 1]) = tCLM
                   => heap'[currentClaim'].claimId = El(elements, 1)]_vars

-----------------------------------------------------------------------------
(* line endings *)

LineBreaks == {CR, LF}

\* the text without its \r and \n characters
NoBreaks(text) == SelectSeq(text, LAMBDA c : c \notin LineBreaks)

\* a line break with other characters on both sides of it
BrokenInside(text) ==
    \E a, b, c \in 1..Len(text) :
        /\ a < b /\ b < c
        /\ text[b] \in LineBreaks
        /\ text[a] \notin Blank /\ text[c] \notin Blank
        /\ \A m \in a..c : text[m] # segmentDelimiter

(* C26: a call returns for a text what a call on a fresh instance returns   *)
(* for the same text with every \r and \n taken out (the same tree, or the  *)
(* same error), wherever the line breaks stood, so two texts that differ in *)
(* line breaks only give the same tree; no segment holds a line break and   *)
(* none ends at one.                                                        *)
C26_LineEndingsInsignificant ==
    /\ \A n \in 1..Len(calls) :
          calls[n].ediData.t = "string"
            => [threw |-> calls[n].threw, message |-> calls[n].message, tree |-> calls[n].tree]
                 = FreshOutcome(kind, StringArg(NoBreaks(calls[n].ediData.v)))
    /\ (pc = "loop" /\ ediData.t = "string")
          => /\ \A n \in 1..Len(segments) : AllIn(segments[n], Range(ediData.v) \ LineBreaks)
             /\ segments = TrimNonEmpty(Split(Trim(NoBreaks(ediData.v)), segmentDelimiter))

\* CL, a line break, M*A: one claim from a tag broken over two lines
C26_Witness ==
    /\ pc = "idle" /\ calls # <<>> /\ ~LastCall.threw
    /\ BrokenInside(LastCall.ediData.v)
    /\ Len(segments) = 1
    /\ Len(Root.claims) = 1

-----------------------------------------------------------------------------
(* tokenization, by positions in the text *)

\* the n-th smallest member of a set of numbers
NthOf(S, n) == CHOOSE a \in S : Cardinality({b \in S : b <= a}) = n

\* the positions of the character d in the text, with both ends of the text
Cuts(text, d) == {0, Len(text) + 1} \cup {j \in 1..Len(text) : text[j] = d}

NextCut(text, d, a) == NthOf({c \in Cuts(text, d) : c > a}, 1)

\* the positions that are not whitespace in the piece that starts after a
Ink(text, a) ==
    {m \in (a + 1)..(NextCut(text, segmentDelimiter, a) - 1) : text[m] \notin WhiteSpace}

\* the starts of the pieces that hold more than whitespace
Kept(text) == {a \in Cuts(text, segmentDelimiter) \ {Len(text) + 1} : Ink(text, a) # {}}

\* the kept pieces in the order of the text, each from its first to its last
\* character that is not whitespace
Tokens(text) ==
    LET kept == Kept(text)
    IN [n \in 1..Cardinality(kept) |->
            LET ink == Ink(text, NthOf(kept, n))
            IN SubSeq(text, NthOf(ink, 1), NthOf(ink, Cardinality(ink)))]

\* element k of a segment: the text between its k-th and (k+1)-th '*'
Field(segment, k) ==
    LET stars == Cuts(segment, elementDelimiter)
    IN IF k + 2 > Cardinality(stars) THEN Undefined
       ELSE SubSeq(segment, NthOf(stars, k + 1) + 1, NthOf(stars, k + 2) - 1)

\* the processed segments whose element 0 is the tag of a claim
ClaimSegments == {j \in 1..i : Field(segments[j], 0) = ClaimTag}

ClaimIdField == IF kind = "837" THEN "claimId" ELSE "claimSubmitterIdentifier"

(* C27: the segments of a call are the '~'-separated pieces of the cleaned  *)
(* text that hold more than whitespace, trimmed and in the order of the     *)
(* text, so leading, trailing and repeated '~' and whitespace-only pieces   *)
(* give no segment; a call fails for want of segments exactly when no piece *)
(* is kept; each segment is split on '*' with element 0 as its tag: the     *)
(* tree has one claim per processed segment whose element 0 is the claim    *)
(* tag, in order, with element 1 as its identifier.                         *)
C27_Tokenization ==
    /\ (pc = "loop" /\ ediData.t = "string") => segments = Tokens(NoBreaks(ediData.v))
    /\ \A n \in 1..Len(calls) :
          calls[n].ediData.t = "string"
            => (calls[n].threw <=> Kept(NoBreaks(calls[n].ediData.v)) = {})
    /\ TreeCurrent
          => /\ Len(Root.claims) = Cardinality(ClaimSegments)
             /\ \A n \in 1..Len(Root.claims) :
                    heap[Root.claims[n]][ClaimIdField]
                        = Field(segments[NthOf(ClaimSegments, n)], 1)

\* a text with a whitespace-only piece between two '~' and a claim after or
\* before it
C27_Witness ==
    /\ pc = "idle" /\ calls # <<>> /\ ~LastCall.threw
    /\ LET text == NoBreaks(LastCall.ediData.v)
       IN \E a \in Cuts(text, segmentDelimiter) \ {Len(text) + 1} :
            /\ a \notin Kept(text)
            /\ NextCut(text, segmentDelimiter, a) > a + 1
            /\ NextCut(text, segmentDelimiter, a) <= Len(text)
            /\ a > 0
    /\ Len(Root.claims) >= 1
    /\ heap[Root.claims[1]][ClaimIdField] = <<"A">>

-----------------------------------------------------------------------------
(* the current-entity pointers of parseSegments *)

PointerNames ==
    IF kind = "837" THEN {"claim", "subscriber", "patient", "provider"}
    ELSE {"claim", "payment", "provider"}

PointerOf(p) ==
    CASE p = "claim" -> currentClaim
      [] p = "subscriber" -> currentSubscriber
      [] p = "patient" -> currentPatient
      [] p = "provider" -> currentProvider
      [] p = "payment" -> currentPayment

\* the segment is of the kind that creates the entity of the pointer
OfKind(p, segment) ==
    LET elements == Elements(segment)
        tag == elements[1]
    IN IF kind = "837"
       THEN CASE p = "claim" -> tag = tCLM
              [] p = "subscriber" -> tag = tNM1 /\ El(elements, 1) = cIL
              [] p = "patient" -> tag = tNM1 /\ El(elements, 1) = cQC
              [] p = "provider" -> tag = tNM1 /\ El(elements, 1) \in ProviderCodes
       ELSE CASE p = "claim" -> tag = tCLP
              [] p = "payment" -> tag = tBPR
              [] p = "provider" -> tag = tN1

\* the object was created from the segment
BuiltFrom(p, o, segment) ==
    LET elements == Elements(segment)
        Holds(f, g) == heap[o][f] = El(elements, 1) /\ heap[o][g] = El(elements, 2)
    IN IF kind = "837"
       THEN IF p = "claim" THEN Holds("claimId", "totalChargeAmount")
            ELSE Holds("entityTypeCode", "entityType")
       ELSE CASE p = "claim" -> Holds("claimSubmitterIdentifier", "claimStatusCode")
              [] p = "payment" -> Holds("transactionHandlingCode", "totalPremiumPaymentAmount")
              [] p = "provider" -> Holds("entityIdentifierCode", "name")

(* C28: during a parse every current-entity pointer is unset while no       *)
(* segment of its kind has been processed, and from the first one on it     *)
(* designates the entity created from the most recent segment of its kind,  *)
(* whatever other segments were processed since.                            *)
C28_PointersPersist ==
    pc = "loop" =>
        \A p \in PointerNames :
            LET S == {j \in 1..i : OfKind(p, segments[j])}
            IN IF S = {} THEN PointerOf(p) = Null
               ELSE /\ PointerOf(p) # Null
                    /\ BuiltFrom(p, PointerOf(p), segments[Latest(S)])

\* the tags whose case assigns the pointer
Assigning(p) ==
    IF kind = "837"
    THEN IF p = "claim" THEN {tCLM} ELSE {tNM1}
    ELSE CASE p = "claim" -> {tCLP}
           [] p = "payment" -> {tBPR}
           [] p = "provider" -> {tN1}

AllPointerNames == {"claim", "subscriber", "patient", "provider", "payment"}

(* C29: an iteration of the loop changes a current-entity pointer only when *)
(* its segment is the one that assigns that pointer: NM1 for provider,      *)
(* subscriber and patient and CLM for the claim in the 837 decoder; BPR for *)
(* the payment, CLP for the claim and N1 for the provider in the 835        *)
(* decoder; every other segment, with a case label or without, leaves all   *)
(* pointers as they were.                                                   *)
C29_PointersAssignedByTheirSegments ==
    [][(pc = "loop" /\ i < Len(segments))
        => /\ \A p \in PointerNames :
                PointerOf(p)' # PointerOf(p) => TagOf(segments[i + 1]) \in Assigning(p)
           /\ \A p \in AllPointerNames \ PointerNames : PointerOf(p)' = PointerOf(p)]_vars

(* C29, with NM1 and CLM in the 837 decoder and BPR and CLP in the 835      *)
(* decoder as the only segments that change a pointer.                      *)
C29_OnlyNM1CLMBPRCLP ==
    [][(pc = "loop" /\ i < Len(segments) /\ Pointers' # Pointers)
        => TagOf(segments[i + 1]) \in (IF kind = "837" THEN {tNM1, tCLM} ELSE {tBPR, tCLP})]_vars

\* BPR, N1, SE: the payment and the provider both set at the return
C29_Witness ==
    /\ kind = "835" /\ pc = "idle" /\ calls # <<>> /\ ~LastCall.threw
    /\ Len(segments) = 3
    /\ TagOf(segments[1]) = tBPR /\ TagOf(segments[2]) = tN1 /\ TagOf(segments[3]) = tSE
    /\ currentPayment # Null /\ currentProvider # Null
    /\ BuiltFrom("provider", currentProvider, segments[2])
    /\ currentClaim = Null

-----------------------------------------------------------------------------
(* DMG once a subscriber exists, 837 decoder *)

DMGRecord(segment) ==
    [dateFormat |-> El(Elements(segment), 1),
     birthDate |-> El(Elements(segment), 2),
     gender |-> El(Elements(segment), 3)]

(* C30: in the 837 decoder a DMG processed after a subscriber NM1 (IL)      *)
(* leaves every patient entry as it was, also when the DMG directly follows *)
(* a patient NM1 (QC), and sets the demographics of the last subscriber of  *)
(* the list to its own record, leaving the earlier subscribers as they      *)
(* were; a patient entry has demographics only if a DMG was processed       *)
(* before the first subscriber NM1.                                         *)
C30_DMGGoesToSubscriberOnceSet ==
    /\ []((kind = "837" /\ TreeCurrent) =>
            \A n \in 1..Len(Root.patients) :
                Has(heap[Root.patients[n]], "demographics")
                    => \E j \in Positions(tDMG, 1, i) : CountCode(cIL, j) = 0)
    /\ [][(kind = "837" /\ pc = "loop" /\ i < Len(segments)
             /\ TagOf(segments[i + 1]) = tDMG /\ CountCode(cIL, i) > 0)
            => LET last == Len(Root.subscribers)
               IN /\ last = CountCode(cIL, i)
                  /\ \A n \in 1..Len(Root.patients) :
                         heap'[Root.patients[n]] = heap[Root.patients[n]]
                  /\ \A n \in 1..(last - 1) :
                         heap'[Root.subscribers[n]] = heap[Root.subscribers[n]]
                  /\ Has(heap'[Root.subscribers[last]], "demographics")
                  /\ heap'[Root.subscribers[last]].demographics = DMGRecord(segments[i + 1])]_vars

\* NM1*IL, NM1*QC, DMG: the DMG that directly follows the patient is on the
\* subscriber
C30_Witness ==
    /\ kind = "837" /\ pc = "idle" /\ calls # <<>> /\ ~LastCall.threw
    /\ Len(segments) = 3
    /\ TagOf(segments[1]) = tNM1 /\ El(Elements(segments[1]), 1) = cIL
    /\ TagOf(segments[2]) = tNM1 /\ El(Elements(segments[2]), 1) = cQC
    /\ TagOf(segments[3]) = tDMG
    /\ Len(Root.patients) = 1 /\ ~Has(heap[Root.patients[1]], "demographics")
    /\ heap[Root.subscribers[1]].demographics = DMGRecord(segments[3])

-----------------------------------------------------------------------------
(* N1 in the 835 decoder *)

RECURSIVE WithoutTag(_, _)
\* the segments without those that carry the tag
WithoutTag(segs, tag) ==
    IF segs = <<>> THEN <<>>
    ELSE (IF TagOf(segs[1]) = tag THEN <<>> ELSE <<segs[1]>>) \o WithoutTag(Tail(segs), tag)

RECURSIVE Terminated(_)
\* the text of the segments, each followed by the segment delimiter
Terminated(segs) ==
    IF segs = <<>> THEN <<>>
    ELSE segs[1] \o <<segmentDelimiter>> \o Terminated(Tail(segs))

\* what the call returned or raised, as the caller sees it
Returned(call) == [threw |-> call.threw, message |-> call.message, tree |-> call.tree]

(* C31: in the 835 decoder a call that returned a tree for an input in      *)
(* which a segment other than N1 occurs returns the tree that a call on the *)
(* same input without its N1 segments returns; at every point of the loop   *)
(* the tree is the one built from the processed segments that are not N1.   *)
C31_N1LeavesTreeAlone ==
    /\ (kind = "835" /\ TreeCurrent)
          => TreeValue(heap, parsedData) = TreeOfSegments("835", WithoutTag(SubSeq(segments, 1, i), tN1))
    /\ (kind = "835" /\ pc = "idle" /\ calls # <<>> /\ ~LastCall.threw
          /\ WithoutTag(segments, tN1) # <<>>)
          => Returned(LastCall)
                = FreshOutcome("835", StringArg(Terminated(WithoutTag(segments, tN1))))

(* C31, for every input: a call that returned a tree returns what a call on *)
(* the input without its N1 segments returns.                               *)
C31_N1RemovedSameOutcome ==
    (kind = "835" /\ pc = "idle" /\ calls # <<>> /\ ~LastCall.threw)
        => Returned(LastCall)
              = FreshOutcome("835", StringArg(Terminated(WithoutTag(segments, tN1))))

\* BPR, N1, CLP: a tree with a payment and its claim, the N1 between them
C31_Witness ==
    /\ kind = "835" /\ pc = "idle" /\ calls # <<>> /\ ~LastCall.threw
    /\ Len(segments) = 3
    /\ TagOf(segments[1]) = tBPR /\ TagOf(segments[2]) = tN1 /\ TagOf(segments[3]) = tCLP
    /\ currentProvider # Null
    /\ Len(LastCall.tree.payments) = 1 /\ Len(LastCall.tree.claims) = 1

-----------------------------------------------------------------------------
(* a claim under its payment and in the flat list, 835 decoder *)

\* the claims list of a payment of the expanded tree, [] when it has none
NestedClaims(payment) == IF "claims" \in DOMAIN payment THEN payment.claims ELSE <<>>

(* C32: in the 835 decoder, at every point of the loop and at the return,   *)
(* the claims list of the payment of the k-th BPR holds the claims of the   *)
(* CLP segments processed between that BPR and the next one, in order; each *)
(* entry is the very record of the flat claims list (the same reference),   *)
(* so in the tree the two entries agree on every field, those added by      *)
(* segments that arrived after the CLP included.                            *)
C32_NestedClaimIsFlatClaim ==
    (kind = "835" /\ TreeCurrent) =>
        LET tree == TreeValue(heap, parsedData)
        IN \A k \in 1..Len(Root.payments) :
              LET nested == NestedClaims(tree.payments[k])
                  before == CountTag(tCLP, NthPos(tBPR, k))
              IN /\ Len(nested) = CountTag(tCLP, SpanEnd(tBPR, k)) - before
                 /\ \A m \in 1..Len(nested) :
                        /\ nested[m] = tree.claims[before + m]
                        /\ ClaimsOf(Root.payments[k])[m] = Root.claims[before + m]

\* BPR, CLP, CAS: the adjustment that arrived after the CLP is on the entry
\* under the payment and on the flat entry
C32_Witness ==
    /\ kind = "835" /\ pc = "idle" /\ calls # <<>> /\ ~LastCall.threw
    /\ Len(segments) = 3
    /\ TagOf(segments[1]) = tBPR /\ TagOf(segments[2]) = tCLP /\ TagOf(segments[3]) = tCAS
    /\ Len(LastCall.tree.payments[1].claims) = 1
    /\ Len(LastCall.tree.payments[1].claims[1].adjustments) = 1
    /\ LastCall.tree.payments[1].claims[1] = LastCall.tree.claims[1]

-----------------------------------------------------------------------------
(* trees returned by earlier calls *)

(* C33: at every moment, during later calls and after them, the tree that a *)
(* call returned is what it was at its return, whether the later calls      *)
(* return or raise; two calls that return a tree return different objects.  *)
C33_ReturnedTreesUntouched ==
    /\ \A n \in 1..Len(calls) :
          ~calls[n].threw => TreeValue(heap, calls[n].root) = calls[n].tree
    /\ \A n, m \in 1..Len(calls) :
          (n < m /\ ~calls[n].threw /\ ~calls[m].threw) => calls[n].root # calls[m].root

\* two calls on one instance that returned different trees
C33_Witness ==
    /\ pc = "idle" /\ Len(calls) = 2
    /\ ~calls[1].threw /\ ~calls[2].threw
    /\ calls[1].tree # calls[2].tree
    /\ calls[1].tree.claims # <<>>
    /\ TreeValue(heap, calls[1].root) = calls[1].tree

-----------------------------------------------------------------------------
(* element values against the text of the input *)

\* the j-th kept piece of the text as it stands between its two '~'
RawSegment(text, j) ==
    LET a == NthOf(Kept(text), j)
    IN SubSeq(text, a + 1, NextCut(text, segmentDelimiter, a) - 1)

\* index of the last element of a piece
LastField(piece) == Cardinality(Cuts(piece, elementDelimiter)) - 2

\* the value without the whitespace at its end
NoTrailing(e) ==
    IF e = Undefined THEN Undefined
    ELSE LET ink == {m \in 1..Len(e) : e[m] \notin WhiteSpace}
         IN IF ink = {} THEN <<>> ELSE SubSeq(e, 1, NthOf(ink, Cardinality(ink)))

\* element k of the piece; the last element of the piece without the
\* whitespace at its end
FieldBeforeEnd(piece, k) ==
    IF k = LastField(piece) THEN NoTrailing(Field(piece, k)) ELSE Field(piece, k)

SecondClaimField == IF kind = "837" THEN "totalChargeAmount" ELSE "claimStatusCode"

ISASegments == {j \in 1..i : Field(segments[j], 0) = tISA}

\* the claim entries and the interchange record hold elements 1 and 2 of
\* their segments as Value(piece, k) gives them
StoredAs(Value(_, _)) ==
    LET text == NoBreaks(ediData.v)
    IN /\ \A n \in 1..Len(Root.claims) :
              LET piece == RawSegment(text, NthOf(ClaimSegments, n))
              IN /\ heap[Root.claims[n]][ClaimIdField] = Value(piece, 1)
                 /\ heap[Root.claims[n]][SecondClaimField] = Value(piece, 2)
       /\ ISASegments # {}
              => LET piece == RawSegment(text, NthOf(ISASegments, Cardinality(ISASegments)))
                 IN /\ Root.interchange.authorizationQualifier = Value(piece, 1)
                    /\ Root.interchange.authorizationInfo = Value(piece, 2)

(* C34: apart from the removed line-ending characters, a field taken from a *)
(* positional element is the exact text between the two delimiters around   *)
(* it, whitespace, leading zeros and decimal points included, except that   *)
(* the last element of a segment is stored without the whitespace that      *)
(* stands between it and the '~' (the segment is trimmed as a whole).       *)
C34_VerbatimButSegmentEnd ==
    TreeCurrent => StoredAs(FieldBeforeEnd)

(* C34, for every element position, the last element of a segment too: the *)
(* field is the exact text between the two delimiters around it.            *)
C34_VerbatimEverywhere ==
    TreeCurrent => StoredAs(Field)

\* "CLM* A *1 ~": the claim id keeps its spaces, the amount has lost the one
\* at its end
C34_Witness ==
    /\ pc = "idle" /\ calls # <<>> /\ ~LastCall.threw
    /\ Len(Root.claims) >= 1
    /\ heap[Root.claims[1]][ClaimIdField] = <<" ", "A", " ">>
    /\ heap[Root.claims[1]][SecondClaimField] = <<"1">>
    /\ Field(RawSegment(NoBreaks(ediData.v), 1), 2) = <<"1", " ">>

-----------------------------------------------------------------------------
(* service entries after their segment *)

\* the adjustments of an object, [] when it has no such list
AdjustmentsOf(h, o) == IF Has(h[o], "adjustments") THEN h[o].adjustments ELSE <<>>

(* C35: no service entry of the tree has an adjustments list; no iteration  *)
(* of the loop, in either decoder, changes a service entry that exists; in  *)
(* the 835 decoder a CAS processed while a claim is current adds one entry, *)
(* with its group code, at the end of that claim's adjustments, also when   *)
(* the segment before it was an SVC.                                        *)
C35_CASOnClaimServicesFrozen ==
    /\ [](TreeCurrent => \A n \in 1..Len(Root.services) :
                            ~Has(heap[Root.services[n]], "adjustments"))
    /\ [][(pc = "loop" /\ i < Len(segments))
            => /\ \A n \in 1..Len(Root.services) :
                      heap'[Root.services[n]] = heap[Root.services[n]]
               /\ (kind = "835" /\ TagOf(segments[i + 1]) = tCAS /\ currentClaim # Null)
                     => LET after == AdjustmentsOf(heap', currentClaim)
                        IN /\ Len(after) = Len(AdjustmentsOf(heap, currentClaim)) + 1
                           /\ after[Len(after)].claimAdjustmentGroupCode
                                 = El(Elements(segments[i + 1]), 1)
                           /\ currentClaim' = currentClaim]_vars

\* CLP, SVC, CAS: the adjustment is on the claim
C35_Witness ==
    /\ kind = "835" /\ pc = "idle" /\ calls # <<>> /\ ~LastCall.threw
    /\ Len(segments) = 3
    /\ TagOf(segments[1]) = tCLP /\ TagOf(segments[2]) = tSVC /\ TagOf(segments[3]) = tCAS
    /\ Len(AdjustmentsOf(heap, Root.claims[1])) = 1
    /\ Len(NestedServices(Root.claims[1])) = 1
    /\ ~Has(heap[Root.services[1]], "adjustments")

-----------------------------------------------------------------------------
(* HI in the 837 decoder *)

\* part k of a composite: the text between its k-th and (k+1)-th ':'
ColonPart(e, k) ==
    IF e = Undefined THEN Undefined
    ELSE LET colons == Cuts(e, ":")
         IN IF k + 2 > Cardinality(colons) THEN Undefined
            ELSE SubSeq(e, NthOf(colons, k + 1) + 1, NthOf(colons, k + 2) - 1)

HealthInfoOf(h, claim) == IF Has(h[claim], "healthInfo") THEN h[claim].healthInfo ELSE <<>>

(* C36: in the 837 decoder an HI processed while a claim is current adds    *)
(* exactly one entry at the end of that claim's healthInfo and changes      *)
(* nothing else; the entry's code qualifier and code are the first and the  *)
(* second ':'-separated part of element 1, and elements 2 and 3, further    *)
(* composites included, are its dateQualifier and date as they stand.       *)
C36_HIOneEntryFirstComposite ==
    [][(kind = "837" /\ pc = "loop" /\ i < Len(segments)
          /\ Field(segments[i + 1], 0) = tHI /\ currentClaim # Null)
        => LET before == HealthInfoOf(heap, currentClaim)
               after == HealthInfoOf(heap', currentClaim)
           IN /\ Len(after) = Len(before) + 1
              /\ SubSeq(after, 1, Len(before)) = before
              /\ after[Len(after)]
                    = [codeQualifier |-> ColonPart(Field(segments[i + 1], 1), 0),
                       code |-> ColonPart(Field(segments[i + 1], 1), 1),
                       dateQualifier |-> Field(segments[i + 1], 2),
                       date |-> Field(segments[i + 1], 3)]
              /\ \A f \in DOMAIN heap[currentClaim] :
                     f # "healthInfo" => heap'[currentClaim][f] = heap[currentClaim][f]
              /\ Len(heap') = Len(heap)
              /\ \A o \in 1..Len(heap) : o # currentClaim => heap'[o] = heap[o]]_vars

\* CLM, then HI*Q:C*R:S*T:U: one entry Q, C with R:S and T:U kept whole
C36_Witness ==
    /\ kind = "837" /\ pc = "idle" /\ calls # <<>> /\ ~LastCall.threw
    /\ Len(segments) = 2
    /\ TagOf(segments[1]) = tCLM /\ TagOf(segments[2]) = tHI
    /\ HealthInfoOf(heap, Root.claims[1])
          = <<[codeQualifier |-> <<"Q">>, code |-> <<"C">>,
               dateQualifier |-> <<"R", ":", "S">>, date |-> <<"T", ":", "U">>]>>

-----------------------------------------------------------------------------
(* The application controller: the page of one decoder in the browser.  The *)
(* instance of the state machine above is this.parser837 (this.parser835);  *)
(* every event handler and every timer callback runs to completion.         *)

\* the model follows MaxCalls requests that reach the timer
Requests == Len(calls) + Len(app.timers)

pages == {"home", "edi837", "edi835"}

\* the page that shows the decoder
PageOf(k) == IF k = "837" THEN "edi837" ELSE "edi835"

PleaseEnter ==
    <<"P","l","e","a","s","e"," ","e","n","t","e","r"," ","E","D","I"," ">>
        \o (IF kind = "837" THEN <<"8","3","7">> ELSE <<"8","3","5">>)
        \o <<" ","d","a","t","a"," ","t","o"," ","p","a","r","s","e",".">>

\* this.sampleData837 / this.sampleData835, cut down to a claim
SampleData == Seg(ClaimTag, <<<<"A">>, <<"1">>>>)

\* what the user may type into the textarea
Typed == {<<>>, <<" ">>, <<segmentDelimiter>>, SampleData, <<" ">> \o Seg(ClaimTag, <<<<"B">>>>)}

\* showLoading837(show) / showLoading835(show)
showLoading(a, show) == [a EXCEPT !.indicatorHidden = ~show, !.btnDisabled = show]

\* showError837(message) / showError835(message)
showError(a, message) == [a EXCEPT !.errorMessage = message, !.errorHidden = FALSE]

\* parseEDI837() / parseEDI835() up to the return: the input check, the
\* loading state, and the 100 ms timer that holds the trimmed input
parseEDI(a) ==
    LET input == Trim(a.input)
    IN IF input = <<>>
       THEN showError(a, PleaseEnter)
       ELSE [showLoading(a, TRUE) EXCEPT !.errorHidden = TRUE, !.resultsHidden = TRUE,
                                         !.timers = Append(a.timers, input)]

\* click on the Parse button, which is dead while disabled
ClickParse ==
    /\ app.page = PageOf(kind) /\ ~app.btnDisabled
    /\ Requests < MaxCalls
    /\ app' = [parseEDI(app) EXCEPT !.cleared = FALSE]
    /\ UNCHANGED <<kind, vocab, heap, segments, parsedData, pc, ediData, i, currentClaim,
                   currentSubscriber, currentPatient, currentProvider, currentPayment, calls,
                   warnings>>

\* keydown with ctrlKey and 'Enter' in the textarea
CtrlEnter ==
    /\ app.page = PageOf(kind)
    /\ Requests < MaxCalls
    /\ app' = [parseEDI(app) EXCEPT !.cleared = FALSE]
    /\ UNCHANGED <<kind, vocab, heap, segments, parsedData, pc, ediData, i, currentClaim,
                   currentSubscriber, currentPatient, currentProvider, currentPayment, calls,
                   warnings>>

\* clearData837() / clearData835()
ClickClear ==
    /\ app.page = PageOf(kind)
    /\ app' = [app EXCEPT !.input = <<>>, !.resultsHidden = TRUE, !.errorHidden = TRUE,
                          !.cleared = TRUE]
    /\ UNCHANGED <<kind, vocab, heap, segments, parsedData, pc, ediData, i, currentClaim,
                   currentSubscriber, currentPatient, currentProvider, currentPayment, calls,
                   warnings>>

\* loadSampleData837() / loadSampleData835()
ClickSample ==
    /\ app.page = PageOf(kind)
    /\ app' = [app EXCEPT !.input = SampleData, !.resultsHidden = TRUE, !.errorHidden = TRUE]
    /\ UNCHANGED <<kind, vocab, heap, segments, parsedData, pc, ediData, i, currentClaim,
                   currentSubscriber, currentPatient, currentProvider, currentPayment, calls,
                   warnings>>

\* the user edits the textarea
TypeInput ==
    /\ app.page = PageOf(kind)
    /\ \E text \in Typed : text # app.input /\ app' = [app EXCEPT !.input = text]
    /\ UNCHANGED <<kind, vocab, heap, segments, parsedData, pc, ediData, i, currentClaim,
                   currentSubscriber, currentPatient, currentProvider, currentPayment, calls,
                   warnings>>

\* PageManager.navigateToPage(pageId), with clearEDI837Results /
\* clearEDI835Results for the decoder when the target is another page
navigateToPage ==
    /\ \E pageId \in pages :
          /\ pageId # app.page
          /\ app' = IF pageId # PageOf(kind)
                    THEN [app EXCEPT !.page = pageId, !.resultsHidden = TRUE,
                                     !.errorHidden = TRUE, !.input = <<>>, !.cleared = TRUE]
                    ELSE [app EXCEPT !.page = pageId]
    /\ UNCHANGED <<kind, vocab, heap, segments, parsedData, pc, ediData, i, currentClaim,
                   currentSubscriber, currentPatient, currentProvider, currentPayment, calls,
                   warnings>>

\* the callback of the oldest timer: parse(input), then showResults and
\* showLoading(false), or showError(error.message) and showLoading(false)
TimerFires ==
    /\ pc = "idle"
    /\ app.timers # <<>>
    /\ LET data == StringArg(Head(app.timers))
           e == IF kind = "837" THEN EDI837_parseEnter(This, heap, data)
                ELSE EDI835_parseEnter(This, heap, data)
           h == IF e.error # <<>> THEN e.heap
                ELSE IF kind = "837"
                     THEN EDI837_runLoop(e.heap, e.parsedData, EDI837_locals, e.segments, 1)
                     ELSE EDI835_runLoop(e.heap, e.parsedData, EDI835_locals, e.segments, 1)
           rest == [app EXCEPT !.timers = Tail(app.timers)]
       IN /\ ediData' = data
          /\ segments' = e.segments
          /\ parsedData' = e.parsedData
          /\ heap' = h
          /\ calls' = Append(calls, Outcome(data, e.error, h, e.parsedData))
          /\ app' = IF e.error # <<>>
                    THEN showLoading(showError(rest, e.error), FALSE)
                    ELSE showLoading([rest EXCEPT !.rendered = TreeValue(h, e.parsedData),
                                                  !.resultsHidden = FALSE], FALSE)
    /\ UNCHANGED <<kind, vocab, pc, i, currentClaim, currentSubscriber, currentPatient,
                   currentProvider, currentPayment, warnings>>

InitApp == Constructed /\ vocab = "typed"

NextApp ==
    \/ ClickParse
    \/ CtrlEnter
    \/ ClickClear
    \/ ClickSample
    \/ TypeInput
    \/ navigateToPage
    \/ TimerFires

SpecApp == InitApp /\ [][NextApp]_vars

(* C37: once Clear was clicked or another page was opened, the results      *)
(* section of the decoder is hidden, and stays hidden until parsing is      *)
(* requested again, also when a timer set before is still pending and its   *)
(* callback runs afterwards.                                                *)
C37_HiddenAfterClear ==
    app.cleared => app.resultsHidden

(* C38: at most one timer of the decoder is pending, and while one is       *)
(* pending the loading indicator is shown and the Parse button is disabled. *)
C38_OnePendingParse ==
    /\ Len(app.timers) <= 1
    /\ app.timers # <<>> => (~app.indicatorHidden /\ app.btnDisabled)

====
